---- MODULE Spec2Model ----
(***************************************************************************)
(* Ceph OSD drive monitor (osd_core.py): the drive enumerator, the         *)
(* device-name mapper, the logical-disk matcher with its identifier        *)
(* parser, and the health aggregator, each as a state machine over the     *)
(* monitor's data.  Strings that the code takes apart (the device_ids      *)
(* descriptor) are sequences of one-character strings; a nullable value    *)
(* is None (the empty tuple) or Some(v) (a one-element tuple).             *)
(***************************************************************************)
EXTENDS Integers, Sequences, FiniteSets, TLC

VARIABLES
    pc,                 \* position of the operation being run
    device_ids_string,  \* parse_device_id: its argument
    parsed,             \* parse_device_id: its return value
    controllers,        \* self.controllers: the list scan_physical_drives walks
    ci,                 \* scan_physical_drives: position in self.controllers
    phy_id,             \* scan_physical_drives: the slot probed next
    seen_serials,       \* scan_physical_drives: serials admitted so far
    drives,             \* the drive map, serial -> drive
    jbod,               \* scan_jbod_enclosure: its locals, None outside a call
    first_sighting,     \* history: serial -> the first response that carried it
    resighted,          \* history: (serial, controller position) of every later sighting
    os_listing,         \* map_drives_to_devices: the lsscsi lines being walked
    li,                 \* map_drives_to_devices: the line handled next
    drives0,            \* history: the drive map as map_drives_to_devices received it
    osds,               \* the logical-disk inventory, (logical_id, metadata) in dict order
    osd_to_drive,       \* the correlation, (logical_id, serial) in dict order
    osd_perf,           \* logical_id -> latencies
    osd_status,         \* logical_id -> up / in
    issues,             \* analyze_health: its return value
    sg_i,               \* find_raid_controllers: the device-node index looked at next
    found,              \* find_raid_controllers: its local list of controllers
    ctrl_seen,          \* find_raid_controllers: controller serials kept so far
    probe_log,          \* history: device-node index -> what its identity probe gave
    systemd_status,     \* logical_id -> service state
    scan_return,        \* scan(): "none" while it runs, then how it ended
    answers,            \* history: what each query of the running scan() gave
    entry,              \* the entry point that started the run
    euid,               \* os.geteuid() of the process
    priv,               \* the privilege check: "unchecked", "passed" or "refused"
    size_input,         \* format_size_bytes: its argument size_bytes
    size_output,        \* format_size_bytes: its return value
    heap,               \* the objects (lists, dicts) created so far, by object id
    self_ref,           \* the monitor's attributes: name -> id of the object bound to it
    results,            \* history: the results scan() returned, each with its object ids
    run,                \* which run of scan() on this monitor: "none", "first", "second"
    list_order,         \* list_drives: the sorted serials still to be printed
    list_rows,          \* list_drives: the table rows printed so far
    list_end            \* list_drives: "none" while it runs, then how it ended

parseVars == <<device_ids_string, parsed>>
enumVars == <<controllers, ci, phy_id, seen_serials, jbod, first_sighting, resighted>>
mapVars == <<os_listing, li, drives0>>
matchVars == <<osds, osd_to_drive>>
healthVars == <<osd_perf, osd_status, issues>>
discVars == <<sg_i, found, ctrl_seen, probe_log>>
scanVars == <<systemd_status, scan_return, answers>>
entryVars == <<entry, euid, priv>>
fmtVars == <<size_input, size_output>>
objVars == <<heap, self_ref, results, run>>
listVars == <<list_order, list_rows, list_end>>
restVars == <<discVars, scanVars, entryVars, fmtVars, objVars, listVars>>
vars == <<pc, parseVars, enumVars, drives, mapVars, matchVars, healthVars, restVars>>

(***************************************************************************)
(* Nullable values.                                                        *)
(***************************************************************************)
None == <<>>
Some(v) == <<v>>
Val(o) == o[1]

(***************************************************************************)
(* Python string primitives, on sequences of characters.                   *)
(***************************************************************************)
Contains(s, c) == \E i \in 1..Len(s) : s[i] = c

FirstIndex(s, c) == CHOOSE i \in 1..Len(s) : s[i] = c /\ \A j \in 1..(i - 1) : s[j] # c

\* str.split(c): always at least one part, empty parts kept
RECURSIVE Split(_, _)
Split(s, c) ==
    IF ~Contains(s, c) THEN <<s>>
    ELSE LET i == FirstIndex(s, c)
         IN <<SubSeq(s, 1, i - 1)>> \o Split(SubSeq(s, i + 1, Len(s)), c)

\* c.join(parts)
RECURSIVE Join(_, _)
Join(parts, c) ==
    IF parts = <<>> THEN <<>>
    ELSE IF Len(parts) = 1 THEN parts[1]
    ELSE parts[1] \o <<c>> \o Join(Tail(parts), c)

\* str.strip(): leading and trailing whitespace removed
RECURSIVE LStrip(_)
LStrip(s) == IF s # <<>> /\ Head(s) = " " THEN LStrip(Tail(s)) ELSE s

RECURSIVE RStrip(_)
RStrip(s) ==
    IF s # <<>> /\ s[Len(s)] = " " THEN RStrip(SubSeq(s, 1, Len(s) - 1)) ELSE s

Strip(s) == RStrip(LStrip(s))

Min(S) == CHOOSE k \in S : \A j \in S : k <= j

(***************************************************************************)
(* parse_device_id (osd_core.py 523-551).                                  *)
(***************************************************************************)
\* a plausible slip: a fixed split count instead of the first/last anchors
ParseEntryFixedSplit(part) ==
    LET i == FirstIndex(part, "=")
        device_name == Strip(SubSeq(part, 1, i - 1))
        identifier == Strip(SubSeq(part, i + 1, Len(part)))
        parts == Split(identifier, "_")
    IN IF Len(parts) >= 3
       THEN Some([device_name |-> device_name,
                  vendor |-> parts[1],
                  model |-> parts[2],
                  serial |-> parts[3],
                  full_id |-> identifier])
       ELSE None

\* one entry that holds '=': lines 533-549
ParseEntry(part) ==
    LET i == FirstIndex(part, "=")
        device_name == Strip(SubSeq(part, 1, i - 1))
        identifier == Strip(SubSeq(part, i + 1, Len(part)))
        parts == Split(identifier, "_")
    IN IF Len(parts) >= 3
       THEN Some([device_name |-> device_name,
                  vendor |-> parts[1],
                  model |-> Join(SubSeq(parts, 2, Len(parts) - 1), "_"),
                  serial |-> parts[Len(parts)],
                  full_id |-> identifier])
       ELSE None

\* a plausible slip: the loop gives up at the first entry it cannot parse
RECURSIVE ParsePartsStopAtFirst(_)
ParsePartsStopAtFirst(ps) ==
    IF ps = <<>> THEN None
    ELSE IF ~Contains(Head(ps), "=") THEN None
    ELSE ParseEntry(Head(ps))

\* the loop over the comma-separated entries: lines 529-551
RECURSIVE ParseParts(_)
ParseParts(ps) ==
    IF ps = <<>> THEN None
    ELSE IF ~Contains(Head(ps), "=") THEN ParseParts(Tail(ps))
    ELSE LET r == ParseEntry(Head(ps))
         IN IF r # None THEN r ELSE ParseParts(Tail(ps))

parse_device_id(s) ==
    IF s = <<>> THEN None ELSE ParseParts(Split(s, ","))

(***************************************************************************)
(* Finite maps (Python dicts).                                             *)
(***************************************************************************)
EmptyMap == [x \in {} |-> x]

Put(m, k, v) == [x \in DOMAIN m \cup {k} |-> IF x = k THEN v ELSE m[x]]

\* dict.update
Update(m, n) == [x \in DOMAIN m \cup DOMAIN n |-> IF x \in DOMAIN n THEN n[x] ELSE m[x]]

(***************************************************************************)
(* format_size_bytes (osd_core.py 222-238).  A byte count b is the pair    *)
(* mb, rem with b = mb * 10^6 + rem and rem < 10^6, so that 8 * 10^12      *)
(* bytes is mb = 8000000, rem = 0.  The result is the formatted text, as   *)
(* characters.  The code divides floats and formats the quotient as        *)
(* Python does: to the nearest, an exact half to the even neighbour.  A    *)
(* half of a tenth of a terabyte is exact only at x.25 and x.75; at every  *)
(* other one the double nearest the quotient lies beside the half, and     *)
(* TenthTiesRoundedUp lists, up to 5 * 10^12 bytes, those lying above it.  *)
(***************************************************************************)
DigitChars == <<"0", "1", "2", "3", "4", "5", "6", "7", "8", "9">>

RECURSIVE Digits(_)
Digits(n) == IF n < 10 THEN <<DigitChars[n + 1]>>
             ELSE Digits(n \div 10) \o <<DigitChars[(n % 10) + 1]>>

Bytes(mb, rem) == [numeric |-> TRUE, mb |-> mb, rem |-> rem]

\* a value int() rejects, such as the text "n/a"
NonNumeric == [numeric |-> FALSE, mb |-> 0, rem |-> 0]

TenthTiesRoundedUp ==
    {1050000, 1350000, 1550000, 1850000, 2350000, 2450000, 2850000, 2950000,
     3350000, 3450000, 3850000, 3950000, 4150000, 4450000, 4650000, 4950000}

\* (mb * 10^6 + rem) / (d * 10^6) to the nearest integer, d even or 1;
\* tie_up says where an exact half goes
RoundDiv(mb, rem, d, tie_up) ==
    LET q == mb \div d
        r == mb % d
        above == IF d = 1 THEN rem > 500000
                 ELSE 2 * r > d \/ (2 * r = d /\ rem > 0)
        half == IF d = 1 THEN rem = 500000 ELSE 2 * r = d /\ rem = 0
    IN IF above \/ (half /\ tie_up) THEN q + 1 ELSE q

\* line 234: f"{size_bytes / 1e12:.1f}T"
FormatT(mb, rem) ==
    LET exact == mb % 250000 = 0
        tie_up == IF exact THEN (mb \div 100000) % 2 = 1
                  ELSE mb \in TenthTiesRoundedUp
        tenths == RoundDiv(mb, rem, 100000, tie_up)
    IN Digits(tenths \div 10) \o <<".">> \o Digits(tenths % 10) \o <<"T">>

\* line 236: f"{size_bytes / 1e9:.0f}G"
FormatG(mb, rem) == Digits(RoundDiv(mb, rem, 1000, (mb \div 1000) % 2 = 1)) \o <<"G">>

\* line 238: f"{size_bytes / 1e6:.0f}M"
FormatM(mb, rem) == Digits(RoundDiv(mb, rem, 1, mb % 2 = 1)) \o <<"M">>

\* a plausible slip: the thresholds are compared with > instead of >=
format_size_bytes_strict(size_bytes) ==
    IF size_bytes = None \/ Val(size_bytes) = Bytes(0, 0) THEN None
    ELSE IF ~Val(size_bytes).numeric THEN None
    ELSE LET mb == Val(size_bytes).mb
             rem == Val(size_bytes).rem
         IN IF mb > 1000000 \/ (mb = 1000000 /\ rem > 0) THEN Some(FormatT(mb, rem))
            ELSE IF mb > 1000 \/ (mb = 1000 /\ rem > 0) THEN Some(FormatG(mb, rem))
            ELSE Some(FormatM(mb, rem))

format_size_bytes(size_bytes) ==
    IF size_bytes = None \/ Val(size_bytes) = Bytes(0, 0) THEN None
    ELSE IF ~Val(size_bytes).numeric THEN None
    ELSE LET mb == Val(size_bytes).mb
             rem == Val(size_bytes).rem
         IN IF mb >= 1000000 THEN Some(FormatT(mb, rem))
            ELSE IF mb >= 1000 THEN Some(FormatG(mb, rem))
            ELSE Some(FormatM(mb, rem))

\* lines 402-406 and 311-315: the bytes of user_capacity, when it has them
CapacityBytes(info) ==
    IF info.user_capacity_mb = None THEN None
    ELSE Some(Bytes(Val(info.user_capacity_mb), 0))

(***************************************************************************)
(* SMART probe responses (smartctl -j -a): None when the command fails or  *)
(* its output is not JSON, otherwise Some(info).  Every key of info is     *)
(* nullable: None stands for a key the JSON does not hold.  A model name   *)
(* is a sequence of words.                                                 *)
(***************************************************************************)
S1 == <<"S", "1">>
S2 == <<"S", "2">>
Serials == {S1, S2}

\* an ATA drive: a vendor only inside the model name, healthy, a capacity
InfoA(serial) ==
    [serial_number |-> serial,
     model_name |-> Some(<<"WDC", "WD40EFRX">>),
     model_family |-> None,
     vendor |-> None,
     passed |-> Some(TRUE),
     temperature |-> Some(30),
     ata_table |-> Some((5 :> 0) @@ (9 :> 1000) @@ (197 :> 0)),
     scsi_grown_defect_list |-> None,
     user_capacity_mb |-> Some(4000000)]

\* a SAS drive: no model name, a vendor, no health status, a grown-defect
\* count, neither temperature nor capacity
InfoB(serial) ==
    [serial_number |-> serial,
     model_name |-> None,
     model_family |-> None,
     vendor |-> Some("SEAGATE"),
     passed |-> None,
     temperature |-> None,
     ata_table |-> None,
     scsi_grown_defect_list |-> Some(2),
     user_capacity_mb |-> None]

SmartInfos == {InfoA(Some(s)) : s \in Serials} \cup {InfoB(Some(s)) : s \in Serials}
              \cup {InfoA(None)}

SmartResponses == {None} \cup {Some(i) : i \in SmartInfos}

(***************************************************************************)
(* extract_smart_details (osd_core.py 186-220).                            *)
(***************************************************************************)
AtaRaw(info, id) ==
    IF info.ata_table # None /\ id \in DOMAIN Val(info.ata_table)
    THEN Some(Val(info.ata_table)[id])
    ELSE None

extract_smart_details(info) ==
    [temperature |-> info.temperature,
     power_on_hours |-> AtaRaw(info, 9),
     reallocated_sectors |->
        IF info.scsi_grown_defect_list # None THEN info.scsi_grown_defect_list
        ELSE AtaRaw(info, 5),
     pending_sectors |-> AtaRaw(info, 197),
     uncorrectable |-> AtaRaw(info, 198),
     load_cycle_count |-> AtaRaw(info, 193)]

(***************************************************************************)
(* build_scsi_address_from_phy (osd_core.py 169-184): an address is the    *)
(* tuple host:channel:target:lun.                                          *)
(***************************************************************************)
build_scsi_address_from_phy(phy, controller_index) == <<controller_index, 0, phy, 0>>

(***************************************************************************)
(* The drive built from one SMART response that carries a serial           *)
(* (osd_core.py 391-422, and the same lines 300-329 for an enclosure).     *)
(***************************************************************************)
Unknown == <<"Unknown">>

DriveFromInfo(info, phy, scsi_address, controller) ==
    LET model == IF info.model_name # None THEN Val(info.model_name)
                 ELSE IF info.model_family # None THEN Val(info.model_family)
                 ELSE Unknown
        vendor == IF info.vendor # None /\ Val(info.vendor) # "" THEN Val(info.vendor)
                  ELSE IF model # <<>> THEN Head(model) ELSE ""
    IN [phy_id |-> phy,
        serial |-> Val(info.serial_number),
        model |-> Some(model),
        vendor |-> vendor,
        health_hw |-> IF info.passed # None /\ Val(info.passed) THEN "OK" ELSE "FAIL",
        smart_details |-> extract_smart_details(info),
        current_device |-> None,
        scsi_address |-> Some(scsi_address),
        size |-> format_size_bytes(CapacityBytes(info)),
        controller |-> controller.type,
        controller_device |-> controller.device]

HasSerial(resp) == resp # None /\ Val(resp).serial_number # None

(***************************************************************************)
(* The OS SCSI listing (lsscsi): None when the command fails, otherwise    *)
(* Some(lines).  A line holds its address, type, vendor, model and device  *)
(* node (None for "-", otherwise the node's name without "/dev/"), and     *)
(* what the OS would answer for that node: the identity probe              *)
(* (smartctl -j -i) and the block-size lookup (lsblk).                     *)
(***************************************************************************)
SgNodes == {"sg3", "sg4"}

IsSg(dev) == dev # None /\ Val(dev) \in SgNodes

(***************************************************************************)
(* scan_jbod_enclosure (osd_core.py 240-333), one target per step.  Its     *)
(* locals are the listing, the targets still to walk and the drives found; *)
(* probed is history: the address and node of every probe made so far.     *)
(***************************************************************************)
\* lines 259-269: the (channel, target, lun) of every line at this host
TargetsFound(lines, controller_index) ==
    {<<lines[i].addr[2], lines[i].addr[3], lines[i].addr[4]>> :
        i \in {j \in 1..Len(lines) : lines[j].addr[1] = controller_index}}

TupleLess(a, b) ==
    \/ a[1] < b[1]
    \/ a[1] = b[1] /\ a[2] < b[2]
    \/ a[1] = b[1] /\ a[2] = b[2] /\ a[3] < b[3]

\* sorted(targets_found): the next one
FirstTarget(ts) == CHOOSE t \in ts : \A u \in ts : u = t \/ TupleLess(t, u)

\* a plausible slip: the first /dev/sg node of the listing, whatever its address
SgDeviceForAnyAddress(lines, scsi_addr) ==
    LET hits == {i \in 1..Len(lines) : IsSg(lines[i].dev)}
    IN IF hits = {} THEN None ELSE lines[Min(hits)].dev

\* lines 278-284: the first line that shows this address and a /dev/sg node
SgDeviceFor(lines, scsi_addr) ==
    LET hits == {i \in 1..Len(lines) : lines[i].addr = scsi_addr /\ IsSg(lines[i].dev)}
    IN IF hits = {} THEN None ELSE lines[Min(hits)].dev

(***************************************************************************)
(* scan_physical_drives (osd_core.py 335-430), one probe per step.         *)
(***************************************************************************)
slots_per_controller == 32

\* a plausible slip: a controller without the key is taken for an enclosure
IsMegaraidDefaultFalse(controller) ==
    IF controller.is_megaraid = None THEN FALSE ELSE Val(controller.is_megaraid)

\* line 357: controller.get('is_megaraid', True)
IsMegaraid(controller) ==
    IF controller.is_megaraid = None THEN TRUE ELSE Val(controller.is_megaraid)

\* a plausible slip: no look at the serials already seen, the later sighting
\* takes the place of the earlier one
AdmitOverwrite(map, seen, resp, phy, scsi_address, controller) ==
    IF HasSerial(resp)
    THEN Put(map, Val(Val(resp).serial_number),
             DriveFromInfo(Val(resp), phy, scsi_address, controller))
    ELSE map

\* a plausible slip: a response without a temperature or without a health
\* status is dropped like one without a serial
AdmitOnlyComplete(map, seen, resp, phy, scsi_address, controller) ==
    IF /\ HasSerial(resp) /\ Val(Val(resp).serial_number) \notin seen
       /\ Val(resp).temperature # None /\ Val(resp).passed # None
    THEN Put(map, Val(Val(resp).serial_number),
             DriveFromInfo(Val(resp), phy, scsi_address, controller))
    ELSE map

\* lines 380-422 and 292-329: a response is admitted when it carries a serial
\* not seen before; the drive map that results
Admit(map, seen, resp, phy, scsi_address, controller) ==
    IF HasSerial(resp) /\ Val(Val(resp).serial_number) \notin seen
    THEN Put(map, Val(Val(resp).serial_number),
             DriveFromInfo(Val(resp), phy, scsi_address, controller))
    ELSE map

\* lines 389 and 298
Seen(seen, resp) ==
    IF HasSerial(resp) THEN seen \cup {Val(Val(resp).serial_number)} ELSE seen

\* history: what the first response to carry each serial was, and where
NoteSighting(resp, phy, scsi_address, cidx) ==
    IF HasSerial(resp)
    THEN LET s == Val(Val(resp).serial_number)
         IN IF s \in DOMAIN first_sighting
            THEN /\ resighted' = resighted \cup {<<s, cidx>>}
                 /\ UNCHANGED first_sighting
            ELSE /\ first_sighting' = Put(first_sighting, s,
                        [info |-> Val(resp), phy |-> phy,
                         scsi_address |-> scsi_address, ci |-> cidx])
                 /\ UNCHANGED resighted
    ELSE UNCHANGED <<first_sighting, resighted>>

\* lines 353-357 and 367-368: a passthrough controller starts its slot walk
BeginMegaraid ==
    /\ pc = "controller"
    /\ ci <= Len(controllers)
    /\ IsMegaraid(controllers[ci])
    /\ pc' = "slot"
    /\ phy_id' = 0
    /\ UNCHANGED <<parseVars, controllers, ci, seen_serials, drives, jbod,
                   first_sighting, resighted>>
    /\ UNCHANGED <<mapVars, matchVars, healthVars, restVars>>

\* lines 368-424: one slot of the passthrough walk
ProbeSlot(resp) ==
    /\ pc = "slot"
    /\ LET controller == controllers[ci]
           scsi_address == build_scsi_address_from_phy(phy_id, controller.index)
       IN /\ drives' = Admit(drives, seen_serials, resp, phy_id, scsi_address, controller)
          /\ seen_serials' = Seen(seen_serials, resp)
          /\ NoteSighting(resp, phy_id, scsi_address, ci)
    /\ IF phy_id + 1 < slots_per_controller
       THEN /\ phy_id' = phy_id + 1
            /\ UNCHANGED <<pc, ci>>
       ELSE /\ pc' = "controller"
            /\ ci' = ci + 1
            /\ phy_id' = 0
    /\ UNCHANGED <<parseVars, controllers, jbod>>
    /\ UNCHANGED <<mapVars, matchVars, healthVars, restVars>>

\* lines 362-363 and 247-271: an enclosure asks the OS for its targets
BeginJbod(lsscsi_output) ==
    /\ pc = "controller"
    /\ ci <= Len(controllers)
    /\ ~IsMegaraid(controllers[ci])
    /\ IF lsscsi_output = None \/ Val(lsscsi_output) = <<>>
       THEN \* line 255: nothing to scan; line 364 merges an empty map
            /\ ci' = ci + 1
            /\ UNCHANGED <<pc, jbod>>
       ELSE /\ jbod' = Some([lines |-> Val(lsscsi_output),
                             targets |-> TargetsFound(Val(lsscsi_output),
                                                      controllers[ci].index),
                             drives |-> EmptyMap,
                             probed |-> <<>>])
            /\ pc' = "target"
            /\ UNCHANGED ci
    /\ UNCHANGED <<parseVars, controllers, phy_id, seen_serials, drives,
                   first_sighting, resighted>>
    /\ UNCHANGED <<mapVars, matchVars, healthVars, restVars>>

\* lines 274-331: one target of the enclosure, in sorted order
ProbeTarget(resp) ==
    /\ pc = "target"
    /\ Val(jbod).targets # {}
    /\ LET controller == controllers[ci]
           t == FirstTarget(Val(jbod).targets)
           scsi_addr == <<controller.index, t[1], t[2], t[3]>>
           sg_device == SgDeviceFor(Val(jbod).lines, scsi_addr)
           rest == Val(jbod).targets \ {t}
       IN IF sg_device = None
          THEN /\ jbod' = Some([Val(jbod) EXCEPT !.targets = rest])
               /\ UNCHANGED <<seen_serials, first_sighting, resighted>>
          ELSE /\ jbod' = Some([Val(jbod) EXCEPT
                                  !.targets = rest,
                                  !.drives = Admit(@, seen_serials, resp, t[2],
                                                   scsi_addr, controller),
                                  !.probed = Append(@, [addr |-> scsi_addr,
                                                        node |-> sg_device])])
               /\ seen_serials' = Seen(seen_serials, resp)
               /\ NoteSighting(resp, t[2], scsi_addr, ci)
    /\ UNCHANGED <<pc, parseVars, controllers, ci, phy_id, drives>>
    /\ UNCHANGED <<mapVars, matchVars, healthVars, restVars>>

\* lines 333 and 364-365: the enclosure's drives are merged into the map
EndJbod ==
    /\ pc = "target"
    /\ Val(jbod).targets = {}
    /\ drives' = Update(drives, Val(jbod).drives)
    /\ jbod' = None
    /\ ci' = ci + 1
    /\ pc' = "controller"
    /\ UNCHANGED <<parseVars, controllers, phy_id, seen_serials,
                   first_sighting, resighted>>
    /\ UNCHANGED <<mapVars, matchVars, healthVars, restVars>>

\* lines 374 and 290 with run_command line 44: smartctl cannot be started, and
\* the OSError that subprocess.run raises is caught nowhere in the enumerator
ProbeCommandMissing ==
    /\ pc \in {"slot", "target"}
    /\ pc' = "raised"
    /\ UNCHANGED <<parseVars, enumVars, drives>>
    /\ UNCHANGED <<mapVars, matchVars, healthVars, restVars>>

\* lines 426-430: every controller walked, the map is returned
EndScanPhysicalDrives ==
    /\ pc = "controller"
    /\ ci > Len(controllers)
    /\ pc' = "scanned"
    /\ UNCHANGED <<parseVars, enumVars, drives>>
    /\ UNCHANGED <<mapVars, matchVars, healthVars, restVars>>

(***************************************************************************)
(* map_drives_to_devices (osd_core.py 432-480), one listing line per step. *)
(***************************************************************************)
\* line 438: the pattern needs a device node at the end of the line
LineMatches(line) == line.dev # None

\* line 445: dev_path.replace('/dev/', '')
DevName(line) == Val(line.dev)

\* lines 461-468: the size the block-size lookup gives, None when the
\* command fails, the answer has no 'blockdevices', or the size is empty
LsblkSize(line) ==
    IF line.lsblk = None THEN None
    ELSE IF Val(line.lsblk).blockdevices = None THEN None
    ELSE IF Val(Val(line.lsblk).blockdevices) = None THEN None
    ELSE IF Val(Val(Val(line.lsblk).blockdevices)) = <<>> THEN None
    ELSE Val(Val(line.lsblk).blockdevices)

\* a plausible slip: the size is assigned whatever the lookup gave
RefineDriveAlways(drive, line) ==
    [drive EXCEPT !.current_device = Some(DevName(line)),
                  !.scsi_address = Some(line.addr),
                  !.model = IF line.vendor # "" /\ line.model # ""
                            THEN Some(<<line.vendor, line.model>>) ELSE @,
                  !.size = LsblkSize(line)]

\* lines 455-469: the matched drive, refined from the line
RefineDrive(drive, line) ==
    [drive EXCEPT !.current_device = Some(DevName(line)),
                  !.scsi_address = Some(line.addr),
                  !.model = IF line.vendor # "" /\ line.model # ""
                            THEN Some(<<line.vendor, line.model>>) ELSE @,
                  !.size = IF LsblkSize(line) # None THEN LsblkSize(line) ELSE @]

\* a plausible slip: the type filter of line 447 is missing
LineIsProbedAnyType(line) == LineMatches(line)

\* lines 439-448: the lines whose device node is asked for its identity
LineIsProbed(line) == LineMatches(line) /\ line.type = "disk"

\* lines 437-469: the drive map after one line
MapLine(map, line) ==
    IF /\ LineIsProbed(line)
       /\ HasSerial(line.ident)
       /\ Val(Val(line.ident).serial_number) \in DOMAIN map
    THEN LET serial == Val(Val(line.ident).serial_number)
         IN [map EXCEPT ![serial] = RefineDrive(@, line)]
    ELSE map

\* line 434-436: the listing arrives; nothing is mapped when it is unavailable
CallLsscsi(lsscsi_output) ==
    /\ pc = "map"
    /\ IF lsscsi_output = None \/ Val(lsscsi_output) = <<>>
       THEN /\ pc' = "mapped"
            /\ UNCHANGED <<os_listing, li>>
       ELSE /\ os_listing' = Val(lsscsi_output)
            /\ li' = 1
            /\ pc' = "mapline"
    /\ UNCHANGED <<parseVars, enumVars, drives, drives0, matchVars, healthVars, restVars>>

HandleLine ==
    /\ pc = "mapline"
    /\ li <= Len(os_listing)
    /\ drives' = MapLine(drives, os_listing[li])
    /\ li' = li + 1
    /\ UNCHANGED <<pc, parseVars, enumVars, os_listing, drives0, matchVars, healthVars, restVars>>

\* lines 474-480
EndMapDrivesToDevices ==
    /\ pc = "mapline"
    /\ li > Len(os_listing)
    /\ pc' = "mapped"
    /\ UNCHANGED <<parseVars, enumVars, drives, mapVars, matchVars, healthVars, restVars>>

(***************************************************************************)
(* Python dicts whose order is read: a sequence of <<key, value>> pairs    *)
(* with distinct keys, in insertion order.                                 *)
(***************************************************************************)
Keys(d) == {d[i][1] : i \in DOMAIN d}

Get(d, k) == d[CHOOSE i \in DOMAIN d : d[i][1] = k][2]

\* d[k] = v: a new key goes last, a known key keeps its place
DictSet(d, k, v) ==
    IF k \in Keys(d)
    THEN [i \in DOMAIN d |-> IF d[i][1] = k THEN <<k, v>> ELSE d[i]]
    ELSE Append(d, <<k, v>>)

(***************************************************************************)
(* get_ceph_osds (osd_core.py 482-497).  The metadata query gives None     *)
(* when it fails, otherwise Some(list); an entry's id is None when the     *)
(* entry has no 'id', and its device_ids is empty when it has none.        *)
(***************************************************************************)
\* line 491: str(osd.get('id', ''))
OsdIdOf(osd) == IF osd.id = None THEN <<>> ELSE Digits(Val(osd.id))

RECURSIVE CollectOsds(_, _)
CollectOsds(acc, metadata) ==
    IF metadata = <<>> THEN acc
    ELSE CollectOsds(DictSet(acc, OsdIdOf(Head(metadata)), Head(metadata)),
                     Tail(metadata))

get_ceph_osds(metadata) ==
    IF metadata = None \/ Val(metadata) = <<>> THEN <<>>
    ELSE CollectOsds(<<>>, Val(metadata))

(***************************************************************************)
(* match_drives_to_osds (osd_core.py 553-577).                             *)
(***************************************************************************)
\* a plausible slip: the vendor has to agree as well
MatchOneWithVendor(acc, map, osd_id, osd_meta) ==
    LET p == parse_device_id(osd_meta.device_ids)
    IN IF p = None THEN acc
       ELSE IF /\ Val(p).serial \in DOMAIN map
               /\ Val(p).vendor = <<"V">>
            THEN DictSet(acc, osd_id, Val(p).serial)
            ELSE acc

\* lines 558-574: one logical disk
MatchOne(acc, map, osd_id, osd_meta) ==
    LET p == parse_device_id(osd_meta.device_ids)
    IN IF p = None THEN acc
       ELSE IF Val(p).serial \in DOMAIN map
            THEN DictSet(acc, osd_id, Val(p).serial)
            ELSE acc

RECURSIVE MatchLoop(_, _, _)
MatchLoop(acc, map, items) ==
    IF items = <<>> THEN acc
    ELSE MatchLoop(MatchOne(acc, map, Head(items)[1], Head(items)[2]), map, Tail(items))

match_drives_to_osds(map, inventory) == MatchLoop(<<>>, map, inventory)

(***************************************************************************)
(* analyze_health (osd_core.py 692-780).  Each judgement list is given as  *)
(* the set of its entries; an entry names its drive by the serial.         *)
(***************************************************************************)
\* x or 0
OrZero(o) == IF o = None THEN 0 ELSE Val(o)

(***************************************************************************)
(* get_osd_status (osd_core.py 579-606).  An output is None when the       *)
(* query gave nothing, else its lines; a line is None when the pattern     *)
(* does not match it, else the groups the pattern captures.                *)
(***************************************************************************)
RECURSIVE TreeStatus(_, _)
\* lines 585-593: a later line of the same id replaces the earlier entry
TreeStatus(acc, lines) ==
    IF lines = <<>> THEN acc
    ELSE LET line == Head(lines)
         IN TreeStatus(IF line = None THEN acc
                       ELSE Put(acc, Val(line).osd_id,
                                [up |-> Some(Val(line).up_status = "up"), in |-> None]),
                       Tail(lines))

RECURSIVE DumpStatus(_, _)
\* lines 597-603: only an id the tree listed gets an in value
DumpStatus(acc, lines) ==
    IF lines = <<>> THEN acc
    ELSE LET line == Head(lines)
         IN DumpStatus(IF line # None /\ Val(line).osd_id \in DOMAIN acc
                       THEN [acc EXCEPT ![Val(line).osd_id].in =
                                            Some(Val(line).in_status = "in")]
                       ELSE acc,
                       Tail(lines))

get_osd_status(tree_output, dump_output) ==
    LET status_map == IF tree_output = None \/ Val(tree_output) = <<>> THEN EmptyMap
                      ELSE TreeStatus(EmptyMap, Val(tree_output))
    IN IF dump_output = None \/ Val(dump_output) = <<>> THEN status_map
       ELSE DumpStatus(status_map, Val(dump_output))

\* lines 724-728: the first logical disk, in dict order, that claims the drive
FindOsd(correlation, serial) ==
    LET hits == {i \in DOMAIN correlation : correlation[i][2] = serial}
    IN IF hits = {} THEN None ELSE Some(correlation[Min(hits)][1])

\* the truth value Python gives an osd_id: None and '' are false
Truthy(o) == o # None /\ Val(o) # <<>>

\* a plausible slip: the pending sectors are not looked at
HasSmartProblemNoPending(smart) ==
    \/ OrZero(smart.reallocated_sectors) > 0
    \/ OrZero(smart.uncorrectable) > 0

\* lines 731-733
HasSmartProblem(smart) ==
    \/ OrZero(smart.reallocated_sectors) > 0
    \/ OrZero(smart.pending_sectors) > 0
    \/ OrZero(smart.uncorrectable) > 0

\* a plausible slip: the threshold itself is flagged
IsHighTempInclusive(smart) ==
    /\ smart.temperature # None
    /\ Val(smart.temperature) # 0
    /\ Val(smart.temperature) >= 45

\* line 742
IsHighTemp(smart) ==
    /\ smart.temperature # None
    /\ Val(smart.temperature) # 0
    /\ Val(smart.temperature) > 45

\* line 751
IsAvailable(osd_id, drive) == ~Truthy(osd_id) /\ drive.current_device # None

\* a plausible slip: the threshold itself is flagged
IsHighLatencyInclusive(perf) == perf.commit_latency_ms >= 100

\* line 759
IsHighLatency(perf) == perf.commit_latency_ms > 100

\* a plausible slip: a logical disk that is not in the cluster counts as down
IsDownOrOut(status) ==
    \/ ~(status.up # None /\ Val(status.up))
    \/ ~(status.in # None /\ Val(status.in))

\* line 771: status.get('up', True); get_osd_status gives every entry the
\* key 'up', so the default never applies and the stored value decides
IsDown(status) == ~(status.up # None /\ Val(status.up))

\* lines 760 and 772: osd_to_drive.get(osd_id)
ClaimedSerial(correlation, osd_id) ==
    IF osd_id \in Keys(correlation) THEN Some(Get(correlation, osd_id)) ELSE None

analyze_health(data) ==
    [smart_problems |->
        {[osd_id |-> FindOsd(data.osd_to_drive, s), serial |-> s] :
            s \in {x \in DOMAIN data.drives : HasSmartProblem(data.drives[x].smart_details)}},
     high_temp |->
        {[osd_id |-> FindOsd(data.osd_to_drive, s), serial |-> s,
          temperature |-> Val(data.drives[s].smart_details.temperature)] :
            s \in {x \in DOMAIN data.drives : IsHighTemp(data.drives[x].smart_details)}},
     available_drives |->
        {[serial |-> s] :
            s \in {x \in DOMAIN data.drives :
                     IsAvailable(FindOsd(data.osd_to_drive, x), data.drives[x])}},
     high_latency |->
        {[osd_id |-> o, latency |-> data.osd_perf[o].commit_latency_ms,
          serial |-> ClaimedSerial(data.osd_to_drive, o)] :
            o \in {x \in DOMAIN data.osd_perf : IsHighLatency(data.osd_perf[x])}},
     down_osds |->
        {[osd_id |-> o, serial |-> ClaimedSerial(data.osd_to_drive, o)] :
            o \in {x \in DOMAIN data.osd_status : IsDown(data.osd_status[x])}}]

(***************************************************************************)
(* The variables an operation does not use keep their idle values.         *)
(***************************************************************************)
ParseIdle == device_ids_string = <<>> /\ parsed = None

EnumIdle ==
    /\ controllers = <<>>
    /\ ci = 1
    /\ phy_id = 0
    /\ seen_serials = {}
    /\ jbod = None
    /\ first_sighting = EmptyMap
    /\ resighted = {}

MapIdle == os_listing = <<>> /\ li = 1 /\ drives0 = EmptyMap

MatchIdle == osds = <<>> /\ osd_to_drive = <<>>

NoIssues ==
    [smart_problems |-> {}, high_temp |-> {}, available_drives |-> {},
     high_latency |-> {}, down_osds |-> {}]

HealthIdle == osd_perf = EmptyMap /\ osd_status = EmptyMap /\ issues = NoIssues

DiscIdle == sg_i = 0 /\ found = <<>> /\ ctrl_seen = {} /\ probe_log = EmptyMap

NotAsked == [kind |-> "none", value |-> None]

NoAnswers == [lsscsi |-> NotAsked, metadata |-> NotAsked, perf |-> NotAsked,
              tree |-> NotAsked, dump |-> NotAsked, is_active |-> EmptyMap]

ScanIdle == systemd_status = EmptyMap /\ scan_return = "none" /\ answers = NoAnswers

EntryIdle == entry = "none" /\ euid = 0 /\ priv = "unchecked"

FmtIdle == size_input = None /\ size_output = None

ObjIdle == heap = <<>> /\ self_ref = EmptyMap /\ results = <<>> /\ run = "none"

ListIdle == list_order = <<>> /\ list_rows = <<>> /\ list_end = "none"

RestIdle == DiscIdle /\ ScanIdle /\ EntryIdle /\ FmtIdle /\ ObjIdle /\ ListIdle

(***************************************************************************)
(* Specification of the parser: a descriptor is built one character at a   *)
(* time (every string over Alphabet up to MaxDescLen), then parsed once.   *)
(***************************************************************************)
MaxDescLen == 8

Alphabet == {"a", "_", "=", ",", " "}

InitParse ==
    /\ pc = "build"
    /\ device_ids_string = <<>>
    /\ parsed = None
    /\ EnumIdle /\ drives = EmptyMap /\ MapIdle /\ MatchIdle /\ HealthIdle /\ RestIdle

AppendChar ==
    /\ pc = "build"
    /\ Len(device_ids_string) < MaxDescLen
    /\ \E c \in Alphabet : device_ids_string' = Append(device_ids_string, c)
    /\ UNCHANGED <<pc, parsed, enumVars, drives, mapVars, matchVars, healthVars, restVars>>

CallParseDeviceId ==
    /\ pc = "build"
    /\ parsed' = parse_device_id(device_ids_string)
    /\ pc' = "parsed"
    /\ UNCHANGED <<device_ids_string, enumVars, drives, mapVars, matchVars, healthVars, restVars>>

NextParse == AppendChar \/ CallParseDeviceId

SpecParse == InitParse /\ [][NextParse]_vars

(***************************************************************************)
(* Specification of the enumerator: scan_physical_drives over a list of    *)
(* controllers, every probe answering any of SmartResponses.               *)
(***************************************************************************)
MaxControllers == 2

P0 == [device |-> "/dev/sg0", type |-> "PERC H730", model |-> "PERC H730P Mini",
       index |-> 0, is_megaraid |-> Some(TRUE), serial |-> Some("C0")]

E1 == [device |-> "/dev/sg1", type |-> "MD1400 JBOD", model |-> "MD1400",
       index |-> 1, is_megaraid |-> Some(FALSE), serial |-> Some("C1")]

P2 == [device |-> "/dev/sg2", type |-> "MegaRAID/LSI", model |-> "LSI MegaRAID",
       index |-> 2, is_megaraid |-> Some(TRUE), serial |-> None]

\* the fallback of find_raid_controllers (lines 158-163): no 'is_megaraid' key
Fallback == [device |-> "/dev/sg6", type |-> "Unknown", model |-> "Unknown",
             index |-> 6, is_megaraid |-> None, serial |-> None]

ControllerPool == {P0, E1, P2}

ControllerLists ==
    {<<Fallback>>} \cup
    {cs \in UNION {[1..n -> ControllerPool] : n \in 1..MaxControllers} :
        \A i, j \in DOMAIN cs : i # j => cs[i] # cs[j]}

\* the slots behind which a drive may answer; every other slot is empty
PopulatedSlots == {0, 1, 31}

SlotResponses(phy) == IF phy \in PopulatedSlots THEN SmartResponses ELSE {None}

SgLine(addr, dev) ==
    [addr |-> addr, type |-> "disk", vendor |-> "SEAGATE", model |-> "ST4000",
     dev |-> dev, ident |-> None, lsblk |-> None]

\* what lsscsi may answer while an enclosure is scanned
EnumListings ==
    {None,
     Some(<<>>),
     Some(<<SgLine(<<1, 0, 5, 0>>, Some("sg3")),
            SgLine(<<1, 0, 2, 0>>, Some("sg4"))>>),
     Some(<<SgLine(<<1, 0, 2, 0>>, None),
            SgLine(<<0, 0, 0, 0>>, Some("sda")),
            SgLine(<<1, 0, 2, 0>>, Some("sg3")),
            SgLine(<<1, 1, 0, 0>>, Some("sdb"))>>)}

InitEnum ==
    /\ pc = "controller"
    /\ controllers \in ControllerLists
    /\ ci = 1
    /\ phy_id = 0
    /\ seen_serials = {}
    /\ jbod = None
    /\ first_sighting = EmptyMap
    /\ resighted = {}
    /\ drives = EmptyMap
    /\ ParseIdle /\ MapIdle /\ MatchIdle /\ HealthIdle /\ RestIdle

NextEnum ==
    \/ BeginMegaraid
    \/ \E resp \in SlotResponses(phy_id) : ProbeSlot(resp)
    \/ \E out \in EnumListings : BeginJbod(out)
    \/ \E resp \in SmartResponses : ProbeTarget(resp)
    \/ EndJbod
    \/ ProbeCommandMissing
    \/ EndScanPhysicalDrives

SpecEnum == InitEnum /\ [][NextEnum]_vars

(***************************************************************************)
(* Specification of the mapper: map_drives_to_devices on a drive map the   *)
(* enumerator can return, against any listing of up to MaxLines lines.     *)
(***************************************************************************)
MaxLines == 2

S3 == <<"S", "3">>

DriveA(serial, phy) ==
    DriveFromInfo(InfoA(Some(serial)), phy, build_scsi_address_from_phy(phy, 0), P0)

DriveB(serial, phy) ==
    DriveFromInfo(InfoB(Some(serial)), phy, build_scsi_address_from_phy(phy, 0), P0)

ScannedDriveMaps ==
    {(S1 :> DriveA(S1, 0)),
     (S1 :> DriveA(S1, 0)) @@ (S2 :> DriveB(S2, 1)),
     (S1 :> DriveB(S1, 3)) @@ (S2 :> DriveA(S2, 0))}

Ident(serial) == Some([InfoA(serial) EXCEPT !.ata_table = None])

Size36T == <<"3", ".", "6", "T">>

Lsblk(size) == Some([blockdevices |-> Some(size)])

\* a disk the OS shows as sda, with a size
LineSda ==
    [addr |-> <<0, 0, 0, 0>>, type |-> "disk", vendor |-> "ATA", model |-> "WDC",
     dev |-> Some("sda"), ident |-> Ident(Some(S1)), lsblk |-> Lsblk(Some(Size36T))]

ListingLines ==
    {LineSda,
     \* a disk whose size lookup fails
     [addr |-> <<0, 0, 1, 0>>, type |-> "disk", vendor |-> "SEAGATE", model |-> "ST4000",
      dev |-> Some("sdb"), ident |-> Ident(Some(S2)), lsblk |-> None],
     \* a second path to the first disk; the size lookup has no 'size'
     [addr |-> <<2, 0, 0, 0>>, type |-> "disk", vendor |-> "ATA", model |-> "WDC",
      dev |-> Some("sdc"), ident |-> Ident(Some(S1)), lsblk |-> Lsblk(None)],
     \* a disk whose size lookup answers without 'blockdevices'
     [addr |-> <<0, 0, 4, 0>>, type |-> "disk", vendor |-> "SEAGATE", model |-> "ST4000",
      dev |-> Some("sdd"), ident |-> Ident(Some(S2)),
      lsblk |-> Some([blockdevices |-> None])],
     \* a disk whose size comes back empty
     [addr |-> <<0, 0, 5, 0>>, type |-> "disk", vendor |-> "ATA", model |-> "WDC",
      dev |-> Some("sde"), ident |-> Ident(Some(S1)), lsblk |-> Lsblk(Some(<<>>))],
     \* not a disk, though its node would answer with a known serial
     [addr |-> <<0, 0, 6, 0>>, type |-> "tape", vendor |-> "IBM", model |-> "ULT3580",
      dev |-> Some("st0"), ident |-> Ident(Some(S2)), lsblk |-> Lsblk(Some(Size36T))],
     \* a disk line without a device node
     [addr |-> <<0, 0, 7, 0>>, type |-> "disk", vendor |-> "ATA", model |-> "WDC",
      dev |-> None, ident |-> Ident(Some(S1)), lsblk |-> Lsblk(Some(Size36T))],
     \* a disk whose identity probe fails
     [addr |-> <<0, 0, 8, 0>>, type |-> "disk", vendor |-> "ATA", model |-> "WDC",
      dev |-> Some("sdf"), ident |-> None, lsblk |-> Lsblk(Some(Size36T))],
     \* a disk whose identity carries no serial
     [addr |-> <<0, 0, 9, 0>>, type |-> "disk", vendor |-> "ATA", model |-> "WDC",
      dev |-> Some("sdg"), ident |-> Ident(None), lsblk |-> Lsblk(Some(Size36T))],
     \* a disk the controller scan did not find
     [addr |-> <<3, 0, 0, 0>>, type |-> "disk", vendor |-> "ATA", model |-> "WDC",
      dev |-> Some("sdh"), ident |-> Ident(Some(S3)), lsblk |-> Lsblk(Some(Size36T))]}

Listings ==
    {None} \cup {Some(ls) : ls \in UNION {[1..n -> ListingLines] : n \in 0..MaxLines}}

InitMap ==
    /\ pc = "map"
    /\ drives \in ScannedDriveMaps
    /\ drives0 = drives
    /\ os_listing = <<>>
    /\ li = 1
    /\ ParseIdle /\ EnumIdle /\ MatchIdle /\ HealthIdle /\ RestIdle

NextMap ==
    \/ \E out \in Listings : CallLsscsi(out)
    \/ HandleLine
    \/ EndMapDrivesToDevices

SpecMap == InitMap /\ [][NextMap]_vars

(***************************************************************************)
(* Specification of the matcher: get_ceph_osds on any metadata answer of   *)
(* up to MaxOsds entries, then match_drives_to_osds.                       *)
(***************************************************************************)
MaxOsds == 2

\* "a=V_M_S1"
DescS1 == <<"a", "=", "V", "_", "M", "_">> \o S1
\* "b=W_N_X_S1": the same serial under another device name, vendor and model
DescS1Other == <<"b", "=", "W", "_", "N", "_", "X", "_">> \o S1
\* "a=V_M_S2"
DescS2 == <<"a", "=", "V", "_", "M", "_">> \o S2
\* "a=V_S1": two tokens only
DescShort == <<"a", "=", "V", "_">> \o S1
\* "a=V_M_S3": a serial no local drive has
DescRemote == <<"a", "=", "V", "_", "M", "_">> \o S3
\* "x,c= V_M_S2 ": the first entry cannot be parsed, the second one can
DescSecond == <<"x", ",", "c", "=", " ", "V", "_", "M", "_">> \o S2 \o <<" ">>

DeviceIds == {<<>>, DescS1, DescS1Other, DescS2, DescShort, DescRemote, DescSecond}

OsdIds == {None, Some(0), Some(12)}

OsdEntries == [id : OsdIds, device_ids : DeviceIds, hostname : {"node1"}]

MetadataAnswers ==
    {None} \cup {Some(m) : m \in UNION {[1..n -> OsdEntries] : n \in 0..MaxOsds}}

\* drive maps as scan() hands them to the matcher: scanned, then mapped
MatchDriveMaps == ScannedDriveMaps \cup {MapLine(m, LineSda) : m \in ScannedDriveMaps}

InitMatch ==
    /\ pc = "osds"
    /\ drives \in MatchDriveMaps
    /\ osds = <<>>
    /\ osd_to_drive = <<>>
    /\ ParseIdle /\ EnumIdle /\ MapIdle /\ HealthIdle /\ RestIdle

\* scan(), lines 659-661
CallGetCephOsds(metadata) ==
    /\ pc = "osds"
    /\ osds' = get_ceph_osds(metadata)
    /\ pc' = IF get_ceph_osds(metadata) = <<>> THEN "failed" ELSE "match"
    /\ UNCHANGED <<parseVars, enumVars, drives, mapVars, osd_to_drive, healthVars, restVars>>

\* scan(), line 664
CallMatchDrivesToOsds ==
    /\ pc = "match"
    /\ osd_to_drive' = match_drives_to_osds(drives, osds)
    /\ pc' = "matched"
    /\ UNCHANGED <<parseVars, enumVars, drives, mapVars, osds, healthVars, restVars>>

NextMatch ==
    \/ \E metadata \in MetadataAnswers : CallGetCephOsds(metadata)
    \/ CallMatchDrivesToOsds

SpecMatch == InitMatch /\ [][NextMatch]_vars

(***************************************************************************)
(* Specification of the health aggregator: analyze_health on scan data.    *)
(* The drive S1 takes every combination of device name and error counters  *)
(* and every temperature; S2, when present, is a healthy mapped drive.     *)
(* The correlation is what the matcher gives for a metadata answer.        *)
(***************************************************************************)
Counters == {None, Some(0), Some(1)}

Temperatures == {None, Some(45), Some(46)}

HealthDrive(dev, r, p, u, t) ==
    [DriveA(S1, 0) EXCEPT
        !.current_device = dev,
        !.smart_details = [@ EXCEPT !.reallocated_sectors = r,
                                    !.pending_sectors = p,
                                    !.uncorrectable = u,
                                    !.temperature = t]]

HealthDrivesS1 ==
    {HealthDrive(dev, r, p, u, Some(30)) :
        dev \in {None, Some("sda")}, r \in Counters, p \in Counters, u \in Counters}
    \cup {HealthDrive(dev, Some(0), None, Some(0), t) :
        dev \in {None, Some("sda")}, t \in Temperatures}

HealthDriveS2 == [DriveB(S2, 1) EXCEPT !.current_device = Some("sdb"),
                                      !.smart_details.reallocated_sectors = Some(0)]

HealthDriveMaps ==
    {(S1 :> d) : d \in HealthDrivesS1}
    \cup {(S1 :> d) @@ (S2 :> HealthDriveS2) : d \in HealthDrivesS1}

HealthOsdEntries == [id : {None, Some(0)}, device_ids : {DescS1, DescS2},
                     hostname : {"node1"}]

HealthMetadata == UNION {[1..n -> HealthOsdEntries] : n \in 1..MaxOsds}

Latencies == {100, 101}

PerfIds == {<<"0">>, <<"1", "2">>}

PerfMaps ==
    UNION {[ids -> [commit_latency_ms : Latencies, apply_latency_ms : {0}]] :
             ids \in SUBSET PerfIds}

TreeLine(id, word) == Some([osd_id |-> id, up_status |-> word])

DumpLine(id, up_word, in_word) ==
    Some([osd_id |-> id, up_status |-> up_word, in_status |-> in_word])

\* answers of `ceph osd tree`: nothing, the bucket rows only, and rows of
\* logical disk 0 in each state
TreeOutputs ==
    {None, Some(<<None>>),
     Some(<<None, TreeLine(<<"0">>, "up")>>),
     Some(<<None, TreeLine(<<"0">>, "down")>>),
     Some(<<None, TreeLine(<<"0">>, "destroyed")>>)}

\* answers of `ceph osd dump`
DumpOutputs ==
    {None,
     Some(<<None, DumpLine(<<"0">>, "up", "in")>>),
     Some(<<None, DumpLine(<<"0">>, "down", "out")>>)}

StatusMaps == {get_osd_status(t, d) : t \in TreeOutputs, d \in DumpOutputs}

ScanData ==
    [drives |-> drives, osd_to_drive |-> osd_to_drive,
     osd_status |-> osd_status, osd_perf |-> osd_perf]

InitHealth ==
    /\ pc = "health"
    /\ drives \in HealthDriveMaps
    /\ \E m \in HealthMetadata :
          /\ osds = get_ceph_osds(Some(m))
          /\ osd_to_drive = match_drives_to_osds(drives, get_ceph_osds(Some(m)))
    /\ osd_perf \in PerfMaps
    /\ osd_status \in StatusMaps
    /\ issues = NoIssues
    /\ ParseIdle /\ EnumIdle /\ MapIdle /\ RestIdle

CallAnalyzeHealth ==
    /\ pc = "health"
    /\ issues' = analyze_health(ScanData)
    /\ pc' = "analyzed"
    /\ UNCHANGED <<parseVars, enumVars, drives, mapVars, matchVars, osd_perf, osd_status, restVars>>

NextHealth == CallAnalyzeHealth

SpecHealth == InitHealth /\ [][NextHealth]_vars

(***************************************************************************)
(* run_command (osd_core.py 35-56).  An outcome of the external command is *)
(* its output on exit 0, a non-zero exit, or no such command; only the     *)
(* CalledProcessError of a non-zero exit (and a JSON decode error) is      *)
(* caught, so a missing command leaves run_command by an exception.        *)
(***************************************************************************)
Output(v) == [kind |-> "output", value |-> Some(v)]

NonZeroExit == [kind |-> "exit", value |-> None]

CommandMissing == [kind |-> "missing", value |-> None]

\* line 44 raises FileNotFoundError, which no except clause names
Raises(outcome) == outcome.kind = "missing"

\* lines 46-52: the value returned when run_command returns
run_command(outcome) == IF outcome.kind = "output" THEN outcome.value ELSE None

(***************************************************************************)
(* find_raid_controllers (osd_core.py 72-167), one device node per step.   *)
(* An identity text is its lines; a line is its label, whether it has a    *)
(* colon, and the value after it.  The substring tests of the code are     *)
(* tables from the texts used here to the keywords they contain.           *)
(***************************************************************************)
sg_range == 30

SgDev(i) == "/dev/sg" \o ToString(i)

IdLine(label, value) == [label |-> label, colon |-> TRUE, value |-> value]

LabelWords(label) ==
    CASE label = "Product" -> {"product"}
      [] label = "Device Model" -> {"device model"}
      [] label = "Serial number" -> {"serial number"}
      [] OTHER -> {}

ValueWords(value) ==
    CASE value = "PERC H730P Adp" -> {"perc", "h730"}
      [] value = "MD1400" -> {"md1400"}
      [] value = "MegaRAID SAS 9361" -> {"megaraid", "raid"}
      [] value = "enclosure" -> {"enclosure"}
      [] value = "MD1200 LSI" -> {"md1200", "lsi"}
      [] value = "RAID bridge" -> {"raid"}
      [] OTHER -> {}

LineWords(line) == LabelWords(line.label) \cup ValueWords(line.value)

InfoWords(info) == UNION {LineWords(info[k]) : k \in DOMAIN info}

\* lines 90-94
Qualifies(info) ==
    InfoWords(info) \cap {"megaraid", "raid", "perc", "md1400", "md1200", "jbod", "enclosure"} # {}

\* lines 108-132: the type the model string gives, None when no pattern matches
ClassifyModel(words) ==
    IF "md1400" \in words THEN Some([type |-> "MD1400 JBOD", is_megaraid |-> FALSE])
    ELSE IF "md1200" \in words THEN Some([type |-> "MD1200 JBOD", is_megaraid |-> FALSE])
    ELSE IF "h730" \in words THEN Some([type |-> "PERC H730", is_megaraid |-> TRUE])
    ELSE IF "h830" \in words THEN Some([type |-> "PERC H830", is_megaraid |-> TRUE])
    ELSE IF "h740" \in words THEN Some([type |-> "PERC H740", is_megaraid |-> TRUE])
    ELSE IF "h840" \in words THEN Some([type |-> "PERC H840", is_megaraid |-> TRUE])
    ELSE IF "perc" \in words THEN Some([type |-> "PERC", is_megaraid |-> TRUE])
    ELSE IF "megaraid" \in words \/ "lsi" \in words
         THEN Some([type |-> "MegaRAID/LSI", is_megaraid |-> TRUE])
    ELSE None

\* lines 101-136: one line of the identity text
ReadIdLine(acc, line) ==
    IF {"product", "device model"} \cap LineWords(line) # {}
    THEN IF line.colon
         THEN LET class == ClassifyModel(ValueWords(line.value))
              IN [acc EXCEPT !.model = line.value,
                             !.type = IF class = None THEN @ ELSE Val(class).type,
                             !.is_megaraid =
                                 IF class = None THEN @ ELSE Some(Val(class).is_megaraid)]
         ELSE acc
    ELSE IF "serial number" \in LineWords(line) /\ line.colon
         THEN [acc EXCEPT !.serial = Some(line.value)]
         ELSE acc

RECURSIVE ReadIdLines(_, _)
ReadIdLines(acc, lines) ==
    IF lines = <<>> THEN acc ELSE ReadIdLines(ReadIdLine(acc, Head(lines)), Tail(lines))

\* lines 95-136 and 145-152: the controller an identity text describes
ControllerFrom(i, info) ==
    ReadIdLines([device |-> SgDev(i), type |-> "Unknown", model |-> "Unknown",
                 index |-> i, is_megaraid |-> Some(FALSE), serial |-> None],
                info)

\* a plausible slip: the serials are not compared
IsDuplicateControllerNever(seen, c) == FALSE

\* lines 138-140: Python reads an empty serial as no serial
IsDuplicateController(seen, c) ==
    c.serial # None /\ Val(c.serial) # "" /\ Val(c.serial) \in seen

\* lines 81-155: the device node sg_i does not exist
NodeAbsent ==
    /\ pc = "discover"
    /\ sg_i < sg_range
    /\ sg_i' = sg_i + 1
    /\ UNCHANGED <<pc, found, ctrl_seen, probe_log>>
    /\ UNCHANGED <<parseVars, enumVars, drives, mapVars, matchVars, healthVars,
                   scanVars, entryVars, fmtVars, objVars, listVars>>

\* lines 81-155: the device node sg_i exists and its identity probe ends
\* with the given outcome
ProbeNode(outcome) ==
    /\ pc = "discover"
    /\ sg_i < sg_range
    /\ probe_log' = Put(probe_log, sg_i, outcome)
    /\ IF Raises(outcome)
       THEN /\ pc' = "raised"
            /\ UNCHANGED <<sg_i, found, ctrl_seen>>
       ELSE /\ pc' = pc
            /\ sg_i' = sg_i + 1
            /\ LET info == run_command(outcome)
               IN IF info = None \/ Val(info) = <<>> \/ ~Qualifies(Val(info))
                  THEN UNCHANGED <<found, ctrl_seen>>
                  ELSE LET c == ControllerFrom(sg_i, Val(info))
                       IN IF IsDuplicateController(ctrl_seen, c)
                          THEN UNCHANGED <<found, ctrl_seen>>
                          ELSE /\ found' = Append(found, c)
                               /\ ctrl_seen' =
                                    IF c.serial # None /\ Val(c.serial) # ""
                                    THEN ctrl_seen \cup {Val(c.serial)}
                                    ELSE ctrl_seen
    /\ UNCHANGED <<parseVars, enumVars, drives, mapVars, matchVars, healthVars,
                   scanVars, entryVars, fmtVars, objVars, listVars>>

\* lines 156-167: the loop is over; the fallback stands in for an empty list
ReturnControllers ==
    /\ pc = "discover"
    /\ sg_i = sg_range
    /\ found' = IF found = <<>> THEN <<Fallback>> ELSE found
    /\ pc' = "discovered"
    /\ UNCHANGED <<sg_i, ctrl_seen, probe_log>>
    /\ UNCHANGED <<parseVars, enumVars, drives, mapVars, matchVars, healthVars,
                   scanVars, entryVars, fmtVars, objVars, listVars>>

(***************************************************************************)
(* Specification of controller discovery: the device nodes below MaxNodes  *)
(* may exist, and the identity probe of each ends with any outcome.        *)
(***************************************************************************)
MaxNodes == 3

IdPerc(serial) ==
    <<IdLine("Vendor", "DELL"), IdLine("Product", "PERC H730P Adp")>>
    \o (IF serial = None THEN <<>> ELSE <<IdLine("Serial number", Val(serial))>>)

IdMd1400(serial) ==
    <<IdLine("Product", "MD1400"), IdLine("Serial number", serial)>>

IdDisk ==
    <<IdLine("Vendor", "SEAGATE"), IdLine("Product", "ST4000NM0035"),
      IdLine("Serial number", "Z1")>>

IdEnclosure == <<IdLine("Device type", "enclosure")>>

\* a controller whose serial line is blank
IdBlank == <<IdLine("Product", "MegaRAID SAS 9361"), IdLine("Serial number", "")>>

IdTexts ==
    {<<>>, IdPerc(None), IdPerc(Some("C1")), IdMd1400("C1"), IdDisk, IdEnclosure, IdBlank}

IdOutcomes == {Output(t) : t \in IdTexts} \cup {NonZeroExit, CommandMissing}

InitDiscover ==
    /\ pc = "discover"
    /\ DiscIdle
    /\ ParseIdle /\ EnumIdle /\ drives = EmptyMap /\ MapIdle /\ MatchIdle /\ HealthIdle
    /\ ScanIdle /\ EntryIdle /\ FmtIdle /\ ObjIdle /\ ListIdle

NextDiscover ==
    \/ NodeAbsent
    \/ \E outcome \in IdOutcomes : sg_i < MaxNodes /\ ProbeNode(outcome)
    \/ ReturnControllers

SpecDiscover == InitDiscover /\ [][NextDiscover]_vars

(***************************************************************************)
(* Specification of discovery followed by enumeration, as scan() runs them *)
(* (lines 642 and 651): the controllers that discovery classified are the  *)
(* ones the enumerator walks.  The slots and targets answer nothing here.  *)
(***************************************************************************)
\* a chassis whose product also names the expander chip
IdMd1200Lsi == <<IdLine("Product", "MD1200 LSI")>>

\* a RAID-like device no pattern recognises
IdRaidBridge == <<IdLine("Vendor", "ACME"), IdLine("Product", "RAID bridge")>>

ClassifyTexts == {IdPerc(None), IdMd1400("C1"), IdEnclosure, IdMd1200Lsi, IdRaidBridge}

\* a plausible slip: the seen-serial set kept on the monitor (self.seen_serials)
\* and never cleared, instead of the local of line 346
BeginScanPhysicalDrivesKeepSeen ==
    /\ pc = "discovered"
    /\ controllers' = found
    /\ ci' = 1
    /\ phy_id' = 0
    /\ UNCHANGED seen_serials
    /\ drives' = EmptyMap
    /\ jbod' = None
    /\ first_sighting' = EmptyMap
    /\ resighted' = {}
    /\ pc' = "controller"
    /\ UNCHANGED <<parseVars, mapVars, matchVars, healthVars, restVars>>

\* lines 642 and 345-351: scan() stores the list and the enumerator starts
BeginScanPhysicalDrives ==
    /\ pc = "discovered"
    /\ controllers' = found
    /\ ci' = 1
    /\ phy_id' = 0
    /\ seen_serials' = {}
    /\ drives' = EmptyMap
    /\ jbod' = None
    /\ first_sighting' = EmptyMap
    /\ resighted' = {}
    /\ pc' = "controller"
    /\ UNCHANGED <<parseVars, mapVars, matchVars, healthVars, restVars>>

InitClassify == InitDiscover

NextClassify ==
    \/ NodeAbsent
    \/ \E t \in ClassifyTexts : sg_i < MaxNodes /\ ProbeNode(Output(t))
    \/ ReturnControllers
    \/ BeginScanPhysicalDrives
    \/ BeginMegaraid
    \/ ProbeSlot(None)
    \/ \E out \in EnumListings : BeginJbod(out)
    \/ ProbeTarget(None)
    \/ EndJbod
    \/ ProbeCommandMissing
    \/ EndScanPhysicalDrives

SpecClassify == InitClassify /\ [][NextClassify]_vars

(***************************************************************************)
(* The other stages of scan() as functions of what their queries give.     *)
(***************************************************************************)
\* a command that ended with a non-zero exit after printing a word
ExitWith(word) == [kind |-> "exit", value |-> Some(word)]

RECURSIVE MapLines(_, _)
MapLines(map, lines) ==
    IF lines = <<>> THEN map ELSE MapLines(MapLine(map, Head(lines)), Tail(lines))

\* a plausible slip: like get_ceph_osds, an unavailable listing gives an
\* empty map
map_drives_to_devices_or_empty(map, lsscsi_output) ==
    IF lsscsi_output = None \/ Val(lsscsi_output) = <<>> THEN EmptyMap
    ELSE MapLines(map, Val(lsscsi_output))

\* map_drives_to_devices (osd_core.py 432-480) on the value run_command gave
map_drives_to_devices(map, lsscsi_output) ==
    IF lsscsi_output = None \/ Val(lsscsi_output) = <<>> THEN map
    ELSE MapLines(map, Val(lsscsi_output))

RECURSIVE PerfLines(_, _)
\* lines 505-518: a line is None when it is the header or the pattern does
\* not match it, else the three numbers of the row
PerfLines(acc, lines) ==
    IF lines = <<>> THEN acc
    ELSE LET line == Head(lines)
         IN PerfLines(IF line = None THEN acc
                      ELSE Put(acc, Val(line).osd_id,
                               [commit_latency_ms |-> Val(line).commit_lat,
                                apply_latency_ms |-> Val(line).apply_lat]),
                      Tail(lines))

\* get_osd_performance (osd_core.py 499-521)
get_osd_performance(output) ==
    IF output = None \/ Val(output) = <<>> THEN EmptyMap
    ELSE PerfLines(EmptyMap, Val(output))

\* check_systemd_status, lines 614-625: the state recorded for one answer
ServiceState(outcome) ==
    LET result == run_command(outcome)
    IN IF result # None /\ Val(result) \in {"active", "activating"} THEN "active"
       ELSE IF result # None /\ Val(result) \in {"inactive", "failed", "deactivating"}
            THEN "inactive"
            ELSE "unknown"

\* a plausible slip: a logical disk whose query gave nothing gets no entry
check_systemd_status_answered(osd_ids, outcome_of) ==
    [id \in {x \in osd_ids : run_command(outcome_of[x]) # None} |->
        ServiceState(outcome_of[id])]

\* check_systemd_status (osd_core.py 608-627): one query per id
check_systemd_status(osd_ids, outcome_of) ==
    [id \in osd_ids |-> ServiceState(outcome_of[id])]

(***************************************************************************)
(* Specification of scan() (osd_core.py 629-677) on a fresh monitor, one   *)
(* stage per step.  Discovery and enumeration give any of the results the  *)
(* specifications above reach, or end by the exception of a missing probe  *)
(* command; every other query ends with any outcome of its command.  The   *)
(* cluster and service queries are run through sudo (line 38), so for them *)
(* a missing command is a non-zero exit.                                   *)
(***************************************************************************)
Returned(v) == [raised |-> FALSE, value |-> v]

Raised(v) == [raised |-> TRUE, value |-> v]

enumLocals == <<ci, phy_id, seen_serials, jbod, first_sighting, resighted>>

\* the scan ends by an exception that scan() does not catch
ScanRaises ==
    /\ pc' = "returned"
    /\ scan_return' = "raised"

\* lines 641-648
ScanFindControllers(res) ==
    /\ pc = "scan"
    /\ IF res.raised
       THEN ScanRaises /\ UNCHANGED controllers
       ELSE /\ controllers' = res.value
            /\ pc' = "scan_drives"
            /\ UNCHANGED scan_return
    /\ UNCHANGED <<parseVars, enumLocals, drives, mapVars, matchVars, healthVars,
                   discVars, entryVars, fmtVars, objVars, listVars, systemd_status, answers>>

\* a plausible slip: the test for an empty drive map comes after the
\* mapping and the inventory instead of before them
ScanPhysicalDrivesNoEmptyCheck(res) ==
    /\ pc = "scan_drives"
    /\ IF res.raised
       THEN ScanRaises /\ UNCHANGED <<drives, drives0>>
       ELSE /\ drives' = res.value
            /\ drives0' = res.value
            /\ pc' = "scan_map" /\ UNCHANGED scan_return
    /\ UNCHANGED <<parseVars, enumVars, os_listing, li, matchVars, healthVars,
                   discVars, entryVars, fmtVars, objVars, listVars, systemd_status, answers>>

\* lines 650-653
ScanPhysicalDrives(res) ==
    /\ pc = "scan_drives"
    /\ IF res.raised
       THEN ScanRaises /\ UNCHANGED <<drives, drives0>>
       ELSE /\ drives' = res.value
            /\ drives0' = res.value
            /\ IF res.value = EmptyMap
               THEN pc' = "returned" /\ scan_return' = "failed"
               ELSE pc' = "scan_map" /\ UNCHANGED scan_return
    /\ UNCHANGED <<parseVars, enumVars, os_listing, li, matchVars, healthVars,
                   discVars, entryVars, fmtVars, objVars, listVars, systemd_status, answers>>

\* lines 655-656
ScanMapDevices(outcome) ==
    /\ pc = "scan_map"
    /\ answers' = [answers EXCEPT !.lsscsi = outcome]
    /\ IF Raises(outcome)
       THEN ScanRaises /\ UNCHANGED drives
       ELSE /\ drives' = map_drives_to_devices(drives, run_command(outcome))
            /\ pc' = "scan_osds"
            /\ UNCHANGED scan_return
    /\ UNCHANGED <<parseVars, enumVars, mapVars, matchVars, healthVars,
                   discVars, entryVars, fmtVars, objVars, listVars, systemd_status>>

\* lines 658-661
ScanGetOsds(outcome) ==
    /\ pc = "scan_osds"
    /\ answers' = [answers EXCEPT !.metadata = outcome]
    /\ osds' = get_ceph_osds(run_command(outcome))
    /\ IF get_ceph_osds(run_command(outcome)) = <<>>
       THEN pc' = "returned" /\ scan_return' = "failed"
       ELSE pc' = "scan_perf" /\ UNCHANGED scan_return
    /\ UNCHANGED <<parseVars, enumVars, drives, mapVars, osd_to_drive, healthVars,
                   discVars, entryVars, fmtVars, objVars, listVars, systemd_status>>

\* lines 663-664
ScanPerfAndMatch(outcome) ==
    /\ pc = "scan_perf"
    /\ answers' = [answers EXCEPT !.perf = outcome]
    /\ osd_perf' = get_osd_performance(run_command(outcome))
    /\ osd_to_drive' = match_drives_to_osds(drives, osds)
    /\ pc' = "scan_status"
    /\ UNCHANGED <<parseVars, enumVars, drives, mapVars, osds, osd_status, issues,
                   discVars, entryVars, fmtVars, objVars, listVars, systemd_status, scan_return>>

\* line 665
ScanGetStatus(tree, dump) ==
    /\ pc = "scan_status"
    /\ answers' = [answers EXCEPT !.tree = tree, !.dump = dump]
    /\ osd_status' = get_osd_status(run_command(tree), run_command(dump))
    /\ pc' = "scan_systemd"
    /\ UNCHANGED <<parseVars, enumVars, drives, mapVars, matchVars, osd_perf, issues,
                   discVars, entryVars, fmtVars, objVars, listVars, systemd_status, scan_return>>

\* lines 666-677
ScanSystemdAndReturn(outcome_of) ==
    /\ pc = "scan_systemd"
    /\ systemd_status' = check_systemd_status(Keys(osd_to_drive), outcome_of)
    /\ answers' = [answers EXCEPT !.is_active = outcome_of]
    /\ scan_return' = "result"
    /\ pc' = "returned"
    /\ UNCHANGED <<parseVars, enumVars, drives, mapVars, matchVars, healthVars, discVars, entryVars, fmtVars, objVars, listVars>>

\* what `systemctl is-active` gives: the state word, with exit status 0
\* only when the unit is active
IsActiveOutcomes ==
    {Output("active"), ExitWith("activating"), ExitWith("inactive"),
     ExitWith("failed"), ExitWith("deactivating"), ExitWith("unknown"), NonZeroExit}

ScanControllerResults == {Raised(<<>>), Returned(<<Fallback>>), Returned(<<P0, E1>>)}

ScanDriveResults ==
    {Raised(EmptyMap), Returned(EmptyMap)} \cup {Returned(m) : m \in ScannedDriveMaps}

ScanListings == {NonZeroExit, CommandMissing, Output(<<>>), Output(<<LineSda>>)}

OsdEntry(id, desc) == [id |-> id, device_ids |-> desc, hostname |-> "node1"]

ScanMetadata ==
    {NonZeroExit, Output(<<>>),
     Output(<<OsdEntry(Some(0), DescS1)>>),
     Output(<<OsdEntry(Some(0), DescS1), OsdEntry(Some(12), DescS2)>>),
     Output(<<OsdEntry(Some(0), DescRemote)>>)}

PerfRow(id, commit_lat, apply_lat) ==
    Some([osd_id |-> id, commit_lat |-> commit_lat, apply_lat |-> apply_lat])

ScanPerfOutputs == {NonZeroExit, Output(<<None, PerfRow(<<"0">>, 101, 3)>>)}

AsOutcome(v) == IF v = None THEN NonZeroExit ELSE Output(Val(v))

InitScan ==
    /\ pc = "scan"
    /\ ParseIdle /\ EnumIdle /\ drives = EmptyMap /\ MapIdle /\ MatchIdle
    /\ HealthIdle /\ RestIdle

NextScan ==
    \/ \E res \in ScanControllerResults : ScanFindControllers(res)
    \/ \E res \in ScanDriveResults : ScanPhysicalDrives(res)
    \/ \E outcome \in ScanListings : ScanMapDevices(outcome)
    \/ \E outcome \in ScanMetadata : ScanGetOsds(outcome)
    \/ \E outcome \in ScanPerfOutputs : ScanPerfAndMatch(outcome)
    \/ \E t \in TreeOutputs, d \in DumpOutputs : ScanGetStatus(AsOutcome(t), AsOutcome(d))
    \/ \E outcome_of \in [Keys(osd_to_drive) -> IsActiveOutcomes] :
          ScanSystemdAndReturn(outcome_of)

SpecScan == InitScan /\ [][NextScan]_vars

\* scan() is straight-line code: once a probe has answered, the next
\* statement runs
SpecScanLive == InitScan /\ [][NextScan]_vars /\ WF_vars(NextScan)

(***************************************************************************)
(* Specification of a run from its entry point: the command-line programs  *)
(* that start a scan (osd_core.py 783-797, check-osd-plain.py 399-428,     *)
(* check-osd-rich.py 474-509, locate-drive.py 167-181 and 98-111) and the  *)
(* call of OSDMonitor.scan() by an importing program, which the module     *)
(* docstring gives as the use of the core (osd_core.py 9-13).              *)
(***************************************************************************)
MainPrograms ==
    {"osd_core.__main__", "check-osd-plain.main", "check-osd-rich.main",
     "locate-drive.main"}

EntryPoints == MainPrograms \cup {"OSDMonitor.scan"}

Euids == {0, 1000}

\* osd_core.py 784, check-osd-plain.py 413: os.geteuid() != 0 refuses
Privileged(uid) == uid = 0

\* a main program: the uid is tested first; a refusal prints the error and
\* exits with status 1, otherwise the monitor is built and scan() called
MainChecksPrivilege ==
    /\ pc = "entry"
    /\ entry \in MainPrograms
    /\ IF Privileged(euid)
       THEN priv' = "passed" /\ pc' = "scan"
       ELSE priv' = "refused" /\ pc' = "exited"
    /\ UNCHANGED <<entry, euid>>
    /\ UNCHANGED <<parseVars, enumVars, drives, mapVars, matchVars, healthVars,
                   discVars, scanVars, fmtVars, objVars, listVars>>

\* an importing program calls scan(): lines 629-642 test nothing before
\* discovery starts
DirectScan ==
    /\ pc = "entry"
    /\ entry = "OSDMonitor.scan"
    /\ pc' = "scan"
    /\ UNCHANGED <<entry, euid, priv>>
    /\ UNCHANGED <<parseVars, enumVars, drives, mapVars, matchVars, healthVars,
                   discVars, scanVars, fmtVars, objVars, listVars>>

InitEntry ==
    /\ pc = "entry"
    /\ entry \in EntryPoints
    /\ euid \in Euids
    /\ priv = "unchecked"
    /\ ParseIdle /\ EnumIdle /\ drives = EmptyMap /\ MapIdle /\ MatchIdle
    /\ HealthIdle /\ DiscIdle /\ ScanIdle /\ FmtIdle /\ ObjIdle /\ ListIdle

NextEntry == MainChecksPrivilege \/ DirectScan \/ NextScan

SpecEntry == InitEntry /\ [][NextEntry]_vars

(***************************************************************************)
(* Specification of format_size_bytes: one call on any of SizeInputs.      *)
(***************************************************************************)
MbValues ==
    {0, 1, 2, 499, 999, 1000, 1499, 1500, 2500, 500000, 999499, 999500, 999999,
     1000000, 1049999, 1050000, 1150000, 1250000, 1750000, 4950000, 8000000}

RemValues == {0, 1, 499999, 500000, 500001, 999999}

SizeInputs ==
    {None, Some(NonNumeric)} \cup {Some(Bytes(mb, rem)) : mb \in MbValues, rem \in RemValues}

InitFormat ==
    /\ pc = "format"
    /\ size_input \in SizeInputs
    /\ size_output = None
    /\ ParseIdle /\ EnumIdle /\ drives = EmptyMap /\ MapIdle /\ MatchIdle
    /\ HealthIdle /\ DiscIdle /\ ScanIdle /\ EntryIdle /\ ObjIdle /\ ListIdle

CallFormatSizeBytes ==
    /\ pc = "format"
    /\ size_output' = format_size_bytes(size_input)
    /\ pc' = "formatted"
    /\ UNCHANGED <<size_input, parseVars, enumVars, drives, mapVars, matchVars,
                   healthVars, discVars, scanVars, entryVars, objVars, listVars>>

NextFormat == CallFormatSizeBytes

SpecFormat == InitFormat /\ [][NextFormat]_vars

(***************************************************************************)
(* Object identity.  scan() binds the monitor's attributes to the objects  *)
(* its stages return and hands the same objects out in its result (lines   *)
(* 668-677), so what a later call does to an object shows in an earlier    *)
(* result that holds it.  Memory is the heap together with the attribute   *)
(* bindings; an object's id is its position in the heap.                   *)
(***************************************************************************)
Memory == [heap |-> heap, refs |-> self_ref]

\* a plausible slip: the object already bound to the attribute is emptied and
\* refilled (self.drives.clear(); self.drives.update(...)) instead of replaced
AssignInPlace(mem, attr, v) ==
    [heap |-> [mem.heap EXCEPT ![mem.refs[attr]] = v], refs |-> mem.refs]

\* self.attr = <the object a stage built and returned>
Assign(mem, attr, v) ==
    [heap |-> Append(mem.heap, v),
     refs |-> [mem.refs EXCEPT ![attr] = Len(mem.heap) + 1]]

SetMemory(mem) == heap' = mem.heap /\ self_ref' = mem.refs

\* lines 61-70: the objects __init__ creates, and which attribute holds which
InitialHeap == <<<<>>, EmptyMap, EmptyMap, <<>>, <<>>, EmptyMap, EmptyMap, EmptyMap>>

InitialRefs ==
    [controllers |-> 1, controller_info |-> 2, drives |-> 3, osds |-> 4,
     osd_to_drive |-> 5, osd_status |-> 6, systemd_status |-> 7, osd_perf |-> 8]

\* lines 668-677: the keys of the result and the attribute each one hands out
ResultFields ==
    [controller |-> "controller_info", drives |-> "drives", osds |-> "osds",
     osd_to_drive |-> "osd_to_drive", osd_status |-> "osd_status",
     systemd_status |-> "systemd_status", osd_perf |-> "osd_perf"]

\* what a holder of the result sees when reading it in memory h
ReadResult(h, refs) ==
    [f \in DOMAIN refs |-> h[refs[f]]]
    @@ [controllers |-> h[h[refs.controller].controllers]]

\* the result the return statement builds, with what it held at that moment
\* and the answers the run was computed from
ResultOf(mem, stamp, probes) ==
    LET refs == [f \in DOMAIN ResultFields |-> mem.refs[ResultFields[f]]]
    IN [timestamp |-> stamp, refs |-> refs,
        at_return |-> ReadResult(mem.heap, refs), probes |-> probes]

\* the argument a caller passes to analyze_health
DataOf(h, r) ==
    [drives |-> h[r.refs.drives], osd_to_drive |-> h[r.refs.osd_to_drive],
     osd_status |-> h[r.refs.osd_status], osd_perf |-> h[r.refs.osd_perf]]

rescanUnused ==
    <<parseVars, mapVars, matchVars, osd_perf, osd_status, sg_i, ctrl_seen, probe_log,
      systemd_status, entryVars, fmtVars, listVars>>

\* an exception leaves scan(); the monitor keeps what was bound so far
RescanRaises == pc' = "idle" /\ scan_return' = "raised"

\* the early returns of lines 652-653 and 660-661
RescanFails == pc' = "idle" /\ scan_return' = "failed"

\* line 639: a caller starts scan() on the monitor, for the first or the
\* second time
RescanStart ==
    /\ pc = "idle"
    /\ run \in {"none", "first"}
    /\ run' = IF run = "none" THEN "first" ELSE "second"
    /\ answers' = NoAnswers
    /\ scan_return' = "none"
    /\ issues' = NoIssues
    /\ pc' = "re_scan"
    /\ UNCHANGED <<enumVars, drives, found, heap, self_ref, results, rescanUnused>>

\* lines 642-648
RescanFindControllers(res) ==
    /\ pc = "re_scan"
    /\ IF res.raised
       THEN RescanRaises /\ UNCHANGED <<found, heap, self_ref>>
       ELSE LET m1 == Assign(Memory, "controllers", res.value)
                m2 == Assign(m1, "controller_info",
                             [count |-> Len(res.value),
                              controllers |-> m1.refs.controllers])
            IN /\ SetMemory(m2)
               /\ found' = res.value
               /\ pc' = "discovered"
               /\ UNCHANGED scan_return
    /\ UNCHANGED <<enumVars, drives, issues, answers, results, run, rescanUnused>>

\* the exception of a probe that could not be started leaves the enumerator
\* and scan()
RescanEnumerationRaised ==
    /\ pc = "raised"
    /\ RescanRaises
    /\ UNCHANGED <<enumVars, drives, issues, found, answers, heap, self_ref, results,
                   run, rescanUnused>>

\* lines 651-653: the map the enumerator returned is bound to self.drives
RescanStoreDrives ==
    /\ pc = "scanned"
    /\ SetMemory(Assign(Memory, "drives", drives))
    /\ IF drives = EmptyMap
       THEN RescanFails
       ELSE pc' = "re_map" /\ UNCHANGED scan_return
    /\ UNCHANGED <<enumVars, drives, issues, found, answers, results, run, rescanUnused>>

\* line 656: map_drives_to_devices writes into the dict it was given and
\* returns it
RescanMapDevices(outcome) ==
    /\ pc = "re_map"
    /\ answers' = [answers EXCEPT !.lsscsi = outcome]
    /\ IF Raises(outcome)
       THEN RescanRaises /\ UNCHANGED heap
       ELSE /\ heap' = [heap EXCEPT ![self_ref.drives] =
                           map_drives_to_devices(@, run_command(outcome))]
            /\ pc' = "re_osds"
            /\ UNCHANGED scan_return
    /\ UNCHANGED <<enumVars, drives, issues, found, self_ref, results, run, rescanUnused>>

\* lines 659-661
RescanGetOsds(outcome) ==
    /\ pc = "re_osds"
    /\ answers' = [answers EXCEPT !.metadata = outcome]
    /\ SetMemory(Assign(Memory, "osds", get_ceph_osds(run_command(outcome))))
    /\ IF get_ceph_osds(run_command(outcome)) = <<>>
       THEN RescanFails
       ELSE pc' = "re_rest" /\ UNCHANGED scan_return
    /\ UNCHANGED <<enumVars, drives, issues, found, results, run, rescanUnused>>

\* lines 663-677: latency, correlation, status, service state, and the return
RescanFinish(perf, tree, dump, outcome_of) ==
    /\ pc = "re_rest"
    /\ LET correlation == match_drives_to_osds(heap[self_ref.drives], heap[self_ref.osds])
           m1 == Assign(Memory, "osd_perf", get_osd_performance(run_command(perf)))
           m2 == Assign(m1, "osd_to_drive", correlation)
           m3 == Assign(m2, "osd_status",
                        get_osd_status(run_command(tree), run_command(dump)))
           m4 == Assign(m3, "systemd_status",
                        check_systemd_status(Keys(correlation), outcome_of))
           asked == [answers EXCEPT !.perf = perf, !.tree = tree, !.dump = dump,
                                    !.is_active = outcome_of]
       IN /\ DOMAIN outcome_of = Keys(correlation)
          /\ SetMemory(m4)
          /\ answers' = asked
          /\ results' = Append(results,
                ResultOf(m4, run,
                         [controllers |-> controllers, first_sighting |-> first_sighting,
                          answers |-> asked]))
    /\ pc' = "idle"
    /\ scan_return' = "result"
    /\ UNCHANGED <<enumVars, drives, issues, found, run, rescanUnused>>

\* lines 706-780: a caller hands a result it holds to analyze_health, which
\* reads the drives, the correlation, the status and the latencies and
\* writes to none of them
RescanAnalyzeHealth(k) ==
    /\ pc = "idle"
    /\ k \in DOMAIN results
    /\ issues' = analyze_health(DataOf(heap, results[k]))
    /\ UNCHANGED <<pc, enumVars, drives, found, scan_return, answers, heap, self_ref,
                   results, run, rescanUnused>>

(***************************************************************************)
(* Specification of two runs of scan() on one monitor, with calls of       *)
(* analyze_health on the results in between and after.  Discovery gives    *)
(* one passthrough controller or ends by an exception; drives answer       *)
(* behind slots 0 and 1.                                                   *)
(***************************************************************************)
RescanControllerResults == {Raised(<<>>), Returned(<<P0>>)}

RescanSlotResponses(phy) ==
    IF phy = 0 THEN {None, Some(InfoA(Some(S1)))}
    ELSE IF phy = 1 THEN {None, Some(InfoA(Some(S1))), Some(InfoB(Some(S2)))}
    ELSE {None}

RescanListings == {CommandMissing, NonZeroExit, Output(<<LineSda>>)}

RescanMetadata == {NonZeroExit, Output(<<OsdEntry(Some(0), DescS1), OsdEntry(Some(12), DescS2)>>)}

RescanTrees == {NonZeroExit, Output(<<None, TreeLine(<<"0">>, "down")>>)}

InitRescan ==
    /\ pc = "idle"
    /\ heap = InitialHeap
    /\ self_ref = InitialRefs
    /\ results = <<>>
    /\ run = "none"
    /\ ParseIdle /\ EnumIdle /\ drives = EmptyMap /\ MapIdle /\ MatchIdle /\ HealthIdle
    /\ DiscIdle /\ ScanIdle /\ EntryIdle /\ FmtIdle /\ ListIdle

NextRescan ==
    \/ RescanStart
    \/ \E res \in RescanControllerResults : RescanFindControllers(res)
    \/ BeginScanPhysicalDrives
    \/ BeginMegaraid
    \/ \E resp \in RescanSlotResponses(phy_id) : ProbeSlot(resp)
    \/ phy_id = 0 /\ ProbeCommandMissing
    \/ RescanEnumerationRaised
    \/ EndScanPhysicalDrives
    \/ RescanStoreDrives
    \/ \E outcome \in RescanListings : RescanMapDevices(outcome)
    \/ \E outcome \in RescanMetadata : RescanGetOsds(outcome)
    \/ \E tree \in RescanTrees :
          \E outcome_of \in [Keys(match_drives_to_osds(heap[self_ref.drives],
                                                       heap[self_ref.osds]))
                              -> {Output("active"), NonZeroExit}] :
              RescanFinish(NonZeroExit, tree, NonZeroExit, outcome_of)
    \/ \E k \in DOMAIN results : RescanAnalyzeHealth(k)

SpecRescan == InitRescan /\ [][NextRescan]_vars

(***************************************************************************)
(* list_drives of the LED tool (locate-drive.py 98-164): it constructs a   *)
(* monitor, runs scan() and prints one table row per drive of the result,  *)
(* then the enclosures.  The drive map and the correlation it reads are    *)
(* those of the result, held in drives and osd_to_drive.                   *)
(***************************************************************************)
\* osd_core.py 668-677: the keys of the dict scan() returns
ResultKeys == DOMAIN ResultFields \cup {"timestamp"}

\* line 124: the sort key, drive.get("current_device", ""); the key is
\* always present in a drive (osd_core.py 324, 417), None until a listing
\* line names the drive
SortKey(drive) == drive.current_device

\* line 123-125: sorted() compares the keys of every drive with those of
\* another as soon as there are two; None compares with nothing
SortRaises(map) ==
    /\ Cardinality(DOMAIN map) >= 2
    /\ \E s \in DOMAIN map : SortKey(map[s]) = None

\* the order of the device names used here
NameRank == [sda |-> 1, sdb |-> 2]

\* lines 123-125: the serials in an order sorted() can give: keys ascending
SortedOrders(map) ==
    {order \in [1..Cardinality(DOMAIN map) -> DOMAIN map] :
        /\ \A i, j \in DOMAIN order : i # j => order[i] # order[j]
        /\ \A i, j \in DOMAIN order :
              (i < j /\ SortKey(map[order[i]]) # None /\ SortKey(map[order[j]]) # None)
                  => NameRank[Val(SortKey(map[order[i]]))]
                        <= NameRank[Val(SortKey(map[order[j]]))]}

\* lines 126-130: "N/A" is the default of a missing key only; a drive not
\* mapped has the key with None, which is formatted into the path
DeviceColumn(drive) ==
    IF drive.current_device = None THEN <<"/dev/", "None">>
    ELSE <<"/dev/", Val(drive.current_device)>>

\* lines 133-139
OsdColumn(correlation, serial) ==
    IF FindOsd(correlation, serial) = None THEN <<"-">>
    ELSE <<"OSD.", Val(FindOsd(correlation, serial))>>

\* lines 142-144: no drive of a scan has the key enclosure_slot
BayColumn(drive) ==
    IF "enclosure_slot" \in DOMAIN drive THEN <<"Slot ", drive.enclosure_slot>> ELSE <<"-">>

\* line 146
Row(map, correlation, serial) ==
    [device |-> DeviceColumn(map[serial]), osd |-> OsdColumn(correlation, serial),
     serial |-> serial, bay |-> BayColumn(map[serial])]

listOthers ==
    <<parseVars, enumVars, drives, mapVars, matchVars, healthVars, discVars, scanVars,
      entryVars, fmtVars, objVars>>

\* lines 104-108: the core cannot be imported
ListImportFails ==
    /\ pc = "list"
    /\ pc' = "listed"
    /\ list_end' = "no_module"
    /\ UNCHANGED <<list_order, list_rows, listOthers>>

\* lines 110-111: a new monitor, and scan() on it
ListCallsScan ==
    /\ pc = "list"
    /\ pc' = "scan"
    /\ UNCHANGED <<listVars, listOthers>>

\* line 111 and 113-115: scan() ended by an exception, which list_drives does
\* not catch, or returned the failure result
ListNoData ==
    /\ pc = "returned"
    /\ scan_return \in {"raised", "failed"}
    /\ pc' = "listed"
    /\ list_end' = IF scan_return = "raised" THEN "exception" ELSE "no_data"
    /\ UNCHANGED <<list_order, list_rows, listOthers>>

\* lines 117-125: the header, and the drives sorted by device name
ListSort ==
    /\ pc = "returned"
    /\ scan_return = "result"
    /\ IF SortRaises(drives)
       THEN /\ pc' = "listed"
            /\ list_end' = "TypeError"
            /\ UNCHANGED list_order
       ELSE /\ list_order' \in SortedOrders(drives)
            /\ pc' = "list_rows"
            /\ UNCHANGED list_end
    /\ UNCHANGED <<list_rows, listOthers>>

\* lines 126-146: the row of one drive
ListRow ==
    /\ pc = "list_rows"
    /\ list_order # <<>>
    /\ list_rows' = Append(list_rows, Row(drives, osd_to_drive, Head(list_order)))
    /\ list_order' = Tail(list_order)
    /\ UNCHANGED <<pc, list_end, listOthers>>

\* lines 148-164: data["enclosures"] is subscripted, and the closing lines
\* are printed
ListEnclosures ==
    /\ pc = "list_rows"
    /\ list_order = <<>>
    /\ pc' = "listed"
    /\ list_end' = IF "enclosures" \in ResultKeys THEN "normal" ELSE "KeyError"
    /\ UNCHANGED <<list_order, list_rows, listOthers>>

LineSdb ==
    [addr |-> <<0, 0, 1, 0>>, type |-> "disk", vendor |-> "ATA", model |-> "ST4000",
     dev |-> Some("sdb"), ident |-> Ident(Some(S2)), lsblk |-> Lsblk(None)]

\* listings that name no drive, one drive, and both drives of the host
ListListings == {NonZeroExit, Output(<<LineSda>>), Output(<<LineSdb, LineSda>>)}

ListMetadata ==
    {NonZeroExit,
     Output(<<OsdEntry(Some(0), DescS1)>>),
     Output(<<OsdEntry(Some(12), DescS2), OsdEntry(Some(0), DescS1)>>)}

InitList ==
    /\ pc = "list"
    /\ ParseIdle /\ EnumIdle /\ drives = EmptyMap /\ MapIdle /\ MatchIdle
    /\ HealthIdle /\ RestIdle

NextList ==
    \/ ListImportFails
    \/ ListCallsScan
    \/ \E res \in ScanControllerResults : ScanFindControllers(res)
    \/ \E res \in ScanDriveResults : ScanPhysicalDrives(res)
    \/ \E outcome \in ListListings : ScanMapDevices(outcome)
    \/ \E outcome \in ListMetadata : ScanGetOsds(outcome)
    \/ \E outcome \in ScanPerfOutputs : ScanPerfAndMatch(outcome)
    \/ ScanGetStatus(NonZeroExit, NonZeroExit)
    \/ \E outcome_of \in [Keys(osd_to_drive) -> {Output("active"), NonZeroExit}] :
          ScanSystemdAndReturn(outcome_of)
    \/ ListNoData
    \/ ListSort
    \/ ListRow
    \/ ListEnclosures

SpecList == InitList /\ [][NextList]_vars

(***************************************************************************)
(* Claims about parse_device_id.                                           *)
(***************************************************************************)
CountChar(s, c) == Cardinality({i \in 1..Len(s) : s[i] = c})

\* the identifier of an entry: what follows its first '=', stripped
IdentifierOf(e) == Strip(SubSeq(e, FirstIndex(e, "=") + 1, Len(e)))

Parseable(e) == Contains(e, "=") /\ CountChar(IdentifierOf(e), "_") >= 2

\* C3: for a one-entry descriptor, an identifier with n >= 3 '_'-separated
\* tokens parses to vendor = first token, serial = last token, model = the
\* rest, so that vendor_model_serial reproduces the identifier; an
\* identifier with fewer than 3 tokens gives no match.
C3_IdentifierParsing ==
    (/\ pc = "parsed"
     /\ ~Contains(device_ids_string, ",")
     /\ Contains(device_ids_string, "="))
    => LET id == IdentifierOf(device_ids_string)
       IN IF CountChar(id, "_") + 1 >= 3
          THEN /\ parsed # None
               /\ Val(parsed).vendor \o <<"_">> \o Val(parsed).model
                    \o <<"_">> \o Val(parsed).serial = id
               /\ ~Contains(Val(parsed).vendor, "_")
               /\ ~Contains(Val(parsed).serial, "_")
          ELSE parsed = None

\* a one-entry descriptor with four or more tokens, a non-empty vendor and
\* serial, and a model that itself holds '_'
C3_Witness ==
    /\ pc = "parsed"
    /\ ~Contains(device_ids_string, ",")
    /\ parsed # None
    /\ Contains(Val(parsed).model, "_")
    /\ Val(parsed).vendor # <<>>
    /\ Val(parsed).serial # <<>>

\* C4: the result is the parse of the first entry, left to right, that
\* holds '=' and an identifier of at least 3 tokens; the entries after it do
\* not matter (the descriptor cut after that entry parses the same); with no
\* such entry, or an empty descriptor, there is no match.
C4_FirstParseableEntry ==
    pc = "parsed"
    => LET es == Split(device_ids_string, ",")
           ks == {k \in 1..Len(es) : Parseable(es[k])}
       IN IF ks # {}
          THEN /\ parsed = ParseEntry(es[Min(ks)])
               /\ parse_device_id(Join(SubSeq(es, 1, Min(ks)), ",")) = parsed
          ELSE parsed = None

\* an entry that holds '=' but cannot be parsed is skipped, the next entry
\* is used, and a further entry follows it
C4_Witness ==
    /\ pc = "parsed"
    /\ LET es == Split(device_ids_string, ",")
       IN /\ Len(es) >= 3
          /\ Contains(es[1], "=")
          /\ ~Parseable(es[1])
          /\ Parseable(es[2])
          /\ parsed = ParseEntry(es[2])

\* two parseable entries that parse differently: the first one is returned
C4_WitnessLater ==
    /\ pc = "parsed"
    /\ LET es == Split(device_ids_string, ",")
       IN /\ Len(es) >= 2
          /\ Parseable(es[1])
          /\ Parseable(es[2])
          /\ ParseEntry(es[1]) # ParseEntry(es[2])
          /\ parsed = ParseEntry(es[1])

(***************************************************************************)
(* Claims about scan_physical_drives.                                      *)
(***************************************************************************)
\* the drives admitted so far, those of an enclosure scan in progress included
AdmittedDrives == IF jbod = None THEN drives ELSE Update(drives, Val(jbod).drives)

\* C1: the drive map holds exactly one drive per serial reported, and every
\* attribute of that drive (slot, controller, location address, model,
\* vendor, health, counters, size) is the one of the first response that
\* carried the serial, whatever was reported for that serial later.
C1_FirstSightingWins ==
    /\ DOMAIN AdmittedDrives = DOMAIN first_sighting
    /\ \A s \in DOMAIN first_sighting :
          LET f == first_sighting[s]
              d == AdmittedDrives[s]
          IN /\ d.serial = s
             /\ d.phy_id = f.phy
             /\ d.scsi_address = Some(f.scsi_address)
             /\ d.controller = controllers[f.ci].type
             /\ d.controller_device = controllers[f.ci].device
             /\ d = DriveFromInfo(f.info, f.phy, f.scsi_address, controllers[f.ci])
    /\ pc = "scanned" => drives = AdmittedDrives

\* the scan has returned; one serial was reported again at a later slot of
\* its controller with other attributes, the other serial again through a
\* second controller
C1_Witness ==
    /\ pc = "scanned"
    /\ Len(controllers) = 2
    /\ DOMAIN drives = Serials
    /\ \E s \in Serials : <<s, first_sighting[s].ci>> \in resighted
    /\ \E s \in Serials : \E c \in 1..2 :
          c # first_sighting[s].ci /\ <<s, c>> \in resighted

(***************************************************************************)
(* Claims about match_drives_to_osds.                                      *)
(***************************************************************************)
\* C2: no two logical disks of the correlation map claim the same serial.
\* (Stated as the claim has it; the matcher does not keep it.)
C2_NoDuplicateSerials ==
    pc = "matched"
    => \A i, j \in DOMAIN osd_to_drive :
          i # j => osd_to_drive[i][2] # osd_to_drive[j][2]

\* the serial each descriptor of DeviceIds names, read off the descriptor
\* text: the last '_'-token of its first entry of three or more tokens
NamedSerial(d) ==
    IF d \in {DescS1, DescS1Other} THEN Some(S1)
    ELSE IF d \in {DescS2, DescSecond} THEN Some(S2)
    ELSE IF d = DescRemote THEN Some(S3)
    ELSE None

\* C5: a logical disk is mapped to serial s exactly when its descriptor
\* names serial s and s is a key of the drive map, whatever the device name,
\* vendor and model in the descriptor; so every value of the correlation is
\* a drive's serial, every key is a logical disk's id, and a logical disk
\* with an unknown serial or an unparseable descriptor has no entry.
C5_MatchBySerialOnly ==
    pc = "matched"
    => /\ \A i \in DOMAIN osds :
             LET id == osds[i][1]
                 named == NamedSerial(osds[i][2].device_ids)
             IN IF named # None /\ Val(named) \in DOMAIN drives
                THEN id \in Keys(osd_to_drive) /\ Get(osd_to_drive, id) = Val(named)
                ELSE id \notin Keys(osd_to_drive)
       /\ Keys(osd_to_drive) \subseteq Keys(osds)
       /\ \A j \in DOMAIN osd_to_drive : osd_to_drive[j][2] \in DOMAIN drives
       /\ \A j, k \in DOMAIN osd_to_drive :
             osd_to_drive[j][1] = osd_to_drive[k][1] => j = k

\* one logical disk is matched through a descriptor with another device
\* name, vendor and model, and one with a remote serial is left out
C5_Witness ==
    /\ pc = "matched"
    /\ \E i, j \in DOMAIN osds :
          /\ osds[i][2].device_ids = DescS1Other
          /\ osds[i][1] \in Keys(osd_to_drive)
          /\ Get(osd_to_drive, osds[i][1]) = S1
          /\ osds[j][2].device_ids = DescRemote
          /\ osds[j][1] \notin Keys(osd_to_drive)

(***************************************************************************)
(* Claims about map_drives_to_devices.                                     *)
(***************************************************************************)
RefinedFields == {"size", "model", "scsi_address", "current_device"}

\* the block-size lookup of a line gives no size
NoSizeAnswer(line) ==
    \/ line.lsblk = None
    \/ Val(line.lsblk).blockdevices = None
    \/ Val(Val(line.lsblk).blockdevices) \in {None, Some(<<>>)}

\* C6: no step of the mapping turns a populated size, model, scsi_address
\* or current_device of a drive into null, and a line whose block-size
\* lookup gives nothing leaves every drive's size as it was.
C6_RefinementAdditive ==
    [][/\ \A s \in DOMAIN drives :
            /\ s \in DOMAIN drives'
            /\ \A f \in RefinedFields :
                  drives[s][f] # None => drives'[s][f] # None
       /\ (pc = "mapline" /\ li <= Len(os_listing) /\ NoSizeAnswer(os_listing[li]))
           => \A s \in DOMAIN drives : drives'[s].size = drives[s].size]_vars

\* a drive with a size from SMART was matched by a line whose size lookup
\* failed: it has its device name and still its size
C6_Witness ==
    /\ pc = "mapped"
    /\ \E i \in DOMAIN os_listing :
          LET line == os_listing[i]
          IN /\ line.type = "disk" /\ line.dev # None /\ line.lsblk = None
             /\ HasSerial(line.ident)
             /\ LET s == Val(Val(line.ident).serial_number)
                IN /\ s \in DOMAIN drives
                   /\ drives0[s].size # None
                   /\ drives[s].size = drives0[s].size
                   /\ drives[s].current_device = line.dev

\* line i is a disk entry with a device node whose identity carries serial s
DiskLineReports(line, s) ==
    /\ line.type = "disk"
    /\ line.dev # None
    /\ line.ident # None
    /\ Val(line.ident).serial_number = Some(s)

\* C7: the mapping neither adds nor removes a drive; a drive whose serial no
\* disk entry of the listing reports keeps every field, with no device name;
\* and handling an entry of another type changes no drive.  With the listing
\* unavailable there is no entry, so every drive is as it was.
C7_UnlistedDrivesUntouched ==
    /\ [](/\ DOMAIN drives = DOMAIN drives0
          /\ \A s \in DOMAIN drives :
                (\A i \in DOMAIN os_listing : ~DiskLineReports(os_listing[i], s))
                => drives[s] = drives0[s] /\ drives[s].current_device = None)
    /\ [][(pc = "mapline" /\ li <= Len(os_listing) /\ os_listing[li].type # "disk")
          => drives' = drives]_vars

\* the listing held a non-disk entry whose node knows a drive's serial and a
\* disk entry for another drive: the first drive is untouched, the other has
\* its device name
C7_Witness ==
    /\ pc = "mapped"
    /\ \E i \in DOMAIN os_listing : \E s \in DOMAIN drives :
          /\ os_listing[i].type # "disk"
          /\ os_listing[i].dev # None
          /\ HasSerial(os_listing[i].ident)
          /\ Val(Val(os_listing[i].ident).serial_number) = s
          /\ drives[s] = drives0[s]
    /\ \E s \in DOMAIN drives : drives[s].current_device # None

\* the listing was unavailable: nothing was mapped
C7_WitnessUnavailable ==
    /\ pc = "mapped"
    /\ os_listing = <<>>
    /\ drives = drives0

(***************************************************************************)
(* Claims about analyze_health.                                            *)
(***************************************************************************)
Claimed(s) == \E j \in DOMAIN osd_to_drive : osd_to_drive[j][2] = s

\* C8: a drive is listed in available_drives exactly when it has a device
\* name and no logical disk, whatever its id, claims its serial.
\* (Stated as the claim has it; the aggregator does not keep it.)
C8_AvailableIffVisibleAndUnclaimed ==
    pc = "analyzed"
    => \A s \in DOMAIN drives :
          ([serial |-> s] \in issues.available_drives)
          <=> (drives[s].current_device # None /\ ~Claimed(s))

\* every logical id the scan knows of
LogicalIds == Keys(osds) \cup DOMAIN osd_perf \cup DOMAIN osd_status

\* C9: a logical disk is listed in high_latency exactly when it has a
\* commit latency and that latency is above 100: 100 itself is not listed,
\* 101 is, a disk without a latency value is not.
C9_HighLatencyAbove100 ==
    pc = "analyzed"
    => /\ \A id \in LogicalIds :
             (\E e \in issues.high_latency : e.osd_id = id)
             <=> (id \in DOMAIN osd_perf /\ osd_perf[id].commit_latency_ms > 100)
       /\ \A e \in issues.high_latency :
             e.osd_id \in DOMAIN osd_perf /\ e.latency = osd_perf[e.osd_id].commit_latency_ms

\* one logical disk at 100 is not listed, another at 101 is, and a logical
\* disk of the inventory has no latency value and is not listed
C9_Witness ==
    /\ pc = "analyzed"
    /\ \E a, b \in DOMAIN osd_perf :
          /\ osd_perf[a].commit_latency_ms = 100
          /\ \A e \in issues.high_latency : e.osd_id # a
          /\ osd_perf[b].commit_latency_ms = 101
          /\ \E e \in issues.high_latency : e.osd_id = b
    /\ \E id \in Keys(osds) :
          id \notin DOMAIN osd_perf /\ \A e \in issues.high_latency : e.osd_id # id

Positive(counter) == counter # None /\ Val(counter) > 0

\* C10: a drive is listed in smart_problems exactly when one of its
\* reallocated, pending or uncorrectable counters is present and above 0;
\* null counters are read as no problem.
C10_SmartProblemIffCounterPositive ==
    pc = "analyzed"
    => \A s \in DOMAIN drives :
          (\E e \in issues.smart_problems : e.serial = s)
          <=> \/ Positive(drives[s].smart_details.reallocated_sectors)
              \/ Positive(drives[s].smart_details.pending_sectors)
              \/ Positive(drives[s].smart_details.uncorrectable)

\* a drive whose only positive counter is the pending one is listed, next to
\* a drive with a null counter and no positive one that is not
C10_Witness ==
    /\ pc = "analyzed"
    /\ drives[S1].smart_details.reallocated_sectors = None
    /\ drives[S1].smart_details.pending_sectors = Some(1)
    /\ drives[S1].smart_details.uncorrectable = Some(0)
    /\ \E e \in issues.smart_problems : e.serial = S1
    /\ S2 \in DOMAIN drives
    /\ drives[S2].smart_details.pending_sectors = None
    /\ \A e \in issues.smart_problems : e.serial # S2

\* C11: a drive is listed in high_temp exactly when it has a temperature
\* reading and the reading is above 45; 45 itself and a missing reading are
\* not listed.
C11_HighTempAbove45 ==
    pc = "analyzed"
    => /\ \A s \in DOMAIN drives :
             (\E e \in issues.high_temp : e.serial = s)
             <=> (drives[s].smart_details.temperature # None
                  /\ Val(drives[s].smart_details.temperature) > 45)
       /\ \A e \in issues.high_temp :
             e.serial \in DOMAIN drives
             /\ e.temperature = Val(drives[e.serial].smart_details.temperature)

\* a drive at 46 is listed next to a drive without a reading that is not
C11_Witness ==
    /\ pc = "analyzed"
    /\ drives[S1].smart_details.temperature = Some(46)
    /\ \E e \in issues.high_temp : e.serial = S1
    /\ S2 \in DOMAIN drives
    /\ drives[S2].smart_details.temperature = None
    /\ \A e \in issues.high_temp : e.serial # S2

\* a drive at exactly 45 is not listed
C11_WitnessAt45 ==
    /\ pc = "analyzed"
    /\ drives[S1].smart_details.temperature = Some(45)
    /\ \A e \in issues.high_temp : e.serial # S1

\* C12: a logical disk is listed in down_osds exactly when it has a status
\* whose up is false; a disk that is up, and a disk without a status (the
\* status query gave nothing for it), are not listed.
C12_DownIffUpFalse ==
    pc = "analyzed"
    => \A id \in LogicalIds :
          (\E e \in issues.down_osds : e.osd_id = id)
          <=> (id \in DOMAIN osd_status /\ osd_status[id].up = Some(FALSE))

\* logical disk 0 is reported down and is listed, while its in value is true
C12_Witness ==
    /\ pc = "analyzed"
    /\ <<"0">> \in DOMAIN osd_status
    /\ osd_status[<<"0">>].up = Some(FALSE)
    /\ osd_status[<<"0">>].in = Some(TRUE)
    /\ \E e \in issues.down_osds : e.osd_id = <<"0">>

\* a logical disk of the inventory without a status is not listed
C12_WitnessUnknown ==
    /\ pc = "analyzed"
    /\ \E id \in Keys(osds) : id \notin DOMAIN osd_status
    /\ osd_status = EmptyMap
    /\ issues.down_osds = {}

(***************************************************************************)
(* Claims about find_raid_controllers.                                     *)
(***************************************************************************)
\* C13: controller discovery never leaves by an exception: whatever device
\* nodes exist and however each identity probe ends (text, non-zero exit,
\* command missing), it returns, and what it returns is never empty.
\* (Stated as the claim has it; the code does not keep it.)
C13_DiscoveryReturnsNonEmpty ==
    /\ pc # "raised"
    /\ pc = "discovered" => found # <<>>

\* the serials that count as shared: every non-null one, or only the
\* non-blank ones
SharedSerials(blank_counts) ==
    {c.serial : c \in {found[a] : a \in DOMAIN found}}
    \ ({None} \cup (IF blank_counts THEN {} ELSE {Some("")}))

NoSharedSerial(blank_counts) ==
    \A a, b \in DOMAIN found :
        a # b /\ found[a].serial \in SharedSerials(blank_counts)
        => found[a].serial # found[b].serial

\* each kept controller is the one its own device node describes, and no
\* lower-numbered node reported its serial
LowestNodeKept(blank_counts) ==
    \A a \in DOMAIN found :
        /\ found[a].device = SgDev(found[a].index)
        /\ found[a].index \in DOMAIN probe_log
        /\ probe_log[found[a].index].kind = "output"
        /\ found[a] = ControllerFrom(found[a].index, Val(probe_log[found[a].index].value))
        /\ \A j \in DOMAIN probe_log :
              /\ probe_log[j].kind = "output"
              /\ Qualifies(Val(probe_log[j].value))
              /\ found[a].serial \in SharedSerials(blank_counts)
              /\ ControllerFrom(j, Val(probe_log[j].value)).serial = found[a].serial
              => found[a].index <= j

\* C14 as amended: no two controllers of the returned list share a serial
\* that is neither null nor blank; of the device nodes that report one such
\* serial the lowest-numbered is the one kept; and each kept controller's
\* index is the number of its device node.
C14_ControllersDeduplicated ==
    pc = "discovered" /\ found # <<Fallback>>
    => NoSharedSerial(FALSE) /\ LowestNodeKept(FALSE)

\* C14 as the claim has it: no two controllers of the returned list share a
\* non-null serial.
C14_NoSharedNonNullSerial ==
    pc = "discovered" /\ found # <<Fallback>>
    => NoSharedSerial(TRUE) /\ LowestNodeKept(TRUE)

\* three nodes report controllers, the first and the third with the same
\* serial; the first is kept, the third is not
C14_Witness ==
    /\ pc = "discovered"
    /\ Len(found) = 2
    /\ found[1].index = 0 /\ found[1].serial = Some("C1")
    /\ 2 \in DOMAIN probe_log
    /\ probe_log[2] = Output(IdMd1400("C1"))
    /\ \A a \in DOMAIN found : found[a].index # 2

(***************************************************************************)
(* Claims about scan().                                                    *)
(***************************************************************************)
\* the query was made and run_command gave nothing for it
GaveNothing(outcome) ==
    \/ outcome.kind = "exit"
    \/ outcome.kind = "output" /\ outcome.value = Some(<<>>)

\* C15: scan() ends with the failure result exactly when a fatal
\* precondition holds (no controller, no drive found, or the inventory query
\* unavailable) and with a result in every other case, whatever the other
\* probes do.  (Stated as the claim has it; the code does not keep it.)
C15_FailureIffFatalPrecondition ==
    pc = "returned"
    => /\ scan_return \in {"failed", "result"}
       /\ scan_return = "failed"
          <=> \/ controllers = <<>>
              \/ drives0 = EmptyMap
              \/ answers.metadata.kind = "exit"

C16_WitnessAnswered ==
    /\ pc = "returned" /\ scan_return = "result"
    /\ answers.lsscsi = Output(<<LineSda>>)
    /\ answers.tree.kind = "output" /\ osd_status # EmptyMap
    /\ answers.perf.kind = "output" /\ osd_perf # EmptyMap
    /\ Len(osd_to_drive) = 2
    /\ \E s \in DOMAIN drives : drives[s].current_device # None

(***************************************************************************)
(* Claims about check_systemd_status.                                      *)
(***************************************************************************)
\* the state word the is-active query printed, None when it printed nothing
ReportedWord(outcome) == outcome.value

\* C17: every queried logical disk gets exactly one of active, inactive and
\* unknown: active when the query reports active or activating, inactive
\* when it reports inactive, failed or deactivating, unknown only when it
\* gives no answer or another word.
\* (Stated as the claim has it; the code does not keep it.)
C17_ServiceStateClassified ==
    pc = "returned" /\ scan_return = "result"
    => /\ DOMAIN systemd_status = DOMAIN answers.is_active
       /\ \A id \in DOMAIN systemd_status :
             LET word == ReportedWord(answers.is_active[id])
             IN systemd_status[id] =
                  IF word \in {Some("active"), Some("activating")} THEN "active"
                  ELSE IF word \in {Some("inactive"), Some("failed"), Some("deactivating")}
                       THEN "inactive"
                       ELSE "unknown"

(***************************************************************************)
(* Claims about the privilege precondition.                                *)
(***************************************************************************)
\* discovery has been entered: external probes have been executed
ProbingStarted == pc \notin {"entry", "exited", "scan"}

\* C18: from every entry point, a direct call of scan() included, the
\* privilege check comes before the first probe, and a process without
\* privilege runs no probe and ends with the error reported.
\* (Stated as the claim has it; the code does not keep it.)
C18_PrivilegeCheckedBeforeProbing ==
    /\ euid # 0 => ~ProbingStarted
    /\ ProbingStarted => priv = "passed"
    /\ pc = "exited" => priv = "refused" /\ euid # 0

(***************************************************************************)
(* Claims about format_size_bytes.                                         *)
(***************************************************************************)
\* the byte count mb * 10^6 + rem lies within half a unit of n units of
\* unit_mb * 10^6 bytes (unit_mb even, or 1)
WithinHalfUnit(mb, rem, n, unit_mb) ==
    IF unit_mb = 1
    THEN (n = mb /\ rem <= 500000) \/ (n = mb + 1 /\ rem >= 500000)
    ELSE LET half == unit_mb \div 2
         IN /\ mb >= n * unit_mb - half
            /\ mb < n * unit_mb + half \/ (mb = n * unit_mb + half /\ rem = 0)

TenthsText(t) == Digits(t \div 10) \o <<".">> \o Digits(t % 10) \o <<"T">>

\* C19: format_size_bytes gives None for None, 0 and a non-numeric value; for
\* any other byte count b it gives b / 10^12 to one decimal with 'T' when
\* b >= 10^12, b / 10^9 to the nearest integer with 'G' when
\* 10^9 <= b < 10^12, and b / 10^6 to the nearest integer with 'M' below that;
\* 8 * 10^12 bytes give "8.0T" and 5 * 10^11 bytes give "500G".
C19_SizeFormatted ==
    pc = "formatted" =>
        IF size_input = None \/ ~Val(size_input).numeric \/ Val(size_input) = Bytes(0, 0)
        THEN size_output = None
        ELSE LET mb == Val(size_input).mb
                 rem == Val(size_input).rem
             IN /\ size_output # None
                /\ IF mb >= 1000000
                   THEN \E t \in 0..(mb \div 100000 + 1) :
                            /\ WithinHalfUnit(mb, rem, t, 100000)
                            /\ Val(size_output) = TenthsText(t)
                   ELSE IF mb >= 1000
                   THEN \E n \in 0..(mb \div 1000 + 1) :
                            /\ WithinHalfUnit(mb, rem, n, 1000)
                            /\ Val(size_output) = Digits(n) \o <<"G">>
                   ELSE \E n \in 0..(mb + 1) :
                            /\ WithinHalfUnit(mb, rem, n, 1)
                            /\ Val(size_output) = Digits(n) \o <<"M">>
                /\ size_input = Some(Bytes(8000000, 0))
                       => size_output = Some(<<"8", ".", "0", "T">>)
                /\ size_input = Some(Bytes(500000, 0))
                       => size_output = Some(<<"5", "0", "0", "G">>)

\* exactly 10^12 bytes are formatted in terabytes
C19_Witness ==
    /\ pc = "formatted"
    /\ size_input = Some(Bytes(1000000, 0))
    /\ size_output = Some(<<"1", ".", "0", "T">>)

\* the two examples, and the inputs that give None
C19_WitnessExamples ==
    /\ pc = "formatted"
    /\ \/ size_input = Some(Bytes(8000000, 0)) /\ size_output = Some(<<"8", ".", "0", "T">>)
       \/ size_input = Some(Bytes(500000, 0)) /\ size_output = Some(<<"5", "0", "0", "G">>)

C19_WitnessNone ==
    /\ pc = "formatted"
    /\ size_input = Some(NonNumeric)
    /\ size_output = None

(***************************************************************************)
(* Claims about the addresses of the drive map.                            *)
(***************************************************************************)
AddressesUnique(map) ==
    \A s1, s2 \in DOMAIN map :
        map[s1].scsi_address = map[s2].scsi_address => s1 = s2

\* C20: no two drives of the drive map have the same scsi_address, both in
\* the map enumeration returns and in the map device-name mapping returns.
C20_AddressesUnique ==
    pc \in {"map", "mapped"} => AddressesUnique(drives)

\* the part of C20 about enumeration alone: the map scan_physical_drives
\* returns has no two drives at one address
C20_UniqueAfterEnumeration ==
    pc = "scanned" => AddressesUnique(drives)

(***************************************************************************)
(* Claims about the admission rule of the enumerator.                      *)
(***************************************************************************)
NoCounters ==
    [temperature |-> None, power_on_hours |-> None, reallocated_sectors |-> None,
     pending_sectors |-> None, uncorrectable |-> None, load_cycle_count |-> None]

\* C21: the drives admitted are exactly the serials that some answered probe
\* carried, each admitted at its first sighting; a response that lacks the
\* temperature, the attribute table and defect count, the capacity or the
\* health status is admitted all the same, with the counters it lacks null
\* (and health FAIL, size null); every drive's serial field is its key.
C21_AdmittedIffSerial ==
    /\ DOMAIN AdmittedDrives = DOMAIN first_sighting
    /\ seen_serials = DOMAIN first_sighting
    /\ \A s \in DOMAIN AdmittedDrives :
          LET d == AdmittedDrives[s]
              info == first_sighting[s].info
          IN /\ d.serial = s
             /\ info.serial_number = Some(s)
             /\ info.temperature = None => d.smart_details.temperature = None
             /\ info.ata_table = None /\ info.scsi_grown_defect_list = None
                    /\ info.temperature = None
                    => d.smart_details = NoCounters
             /\ info.user_capacity_mb = None => d.size = None
             /\ info.passed = None => d.health_hw = "FAIL"

\* the scan has returned a drive whose response had neither temperature,
\* attribute table, capacity nor health status
C21_Witness ==
    /\ pc = "scanned"
    /\ \E s \in DOMAIN drives :
          /\ first_sighting[s].info = InfoB(Some(s))
          /\ drives[s].smart_details.temperature = None
          /\ drives[s].size = None

(***************************************************************************)
(* Claims about the termination of scan().                                 *)
(***************************************************************************)
\* C22: when every probe answers, scan() eventually returns, and it returns
\* either the failure result or the result with all its parts (timestamp,
\* controllers, drives, logical disks, correlation, status, service state,
\* performance), never anything else.
C22_ScanReturnsAllOrNothing ==
    <>(pc = "returned" /\ scan_return \in {"failed", "result"})

\* the part of C22 that holds: scan() is at one of its stages until it has
\* ended, and each step moves to a later stage (C24_StagesAdvance)
C22_ScanAtAStage ==
    pc \in {"scan", "scan_drives", "scan_map", "scan_osds", "scan_perf", "scan_status",
            "scan_systemd", "returned"}

(***************************************************************************)
(* Claims about the order of the stages of scan().                         *)
(***************************************************************************)
Asked(q) == q # NotAsked

\* the stages of scan() in the order of lines 642-666
StageOrder ==
    <<"scan", "scan_drives", "scan_map", "scan_osds", "scan_perf", "scan_status",
      "scan_systemd">>

StageOf(p) == CHOOSE k \in DOMAIN StageOrder : StageOrder[k] = p

\* C24: the stages of scan() run in pipeline order.  Until discovery has
\* returned nothing is enumerated; the listing for the device-name mapping is
\* asked for only once enumeration has returned its drives; the inventory is
\* asked for only after the mapping; latency, status and service state only
\* after the inventory, and service state only with the correlation built;
\* and a scan whose enumeration found no drive fails with no cluster query
\* asked.
C24_PipelineOrder ==
    /\ pc = "scan" => controllers = <<>> /\ drives = EmptyMap /\ answers = NoAnswers
    /\ pc = "scan_drives" => drives = EmptyMap /\ answers = NoAnswers
    /\ Asked(answers.lsscsi) => drives0 # EmptyMap
    /\ Asked(answers.metadata) => Asked(answers.lsscsi) /\ ~Raises(answers.lsscsi)
    /\ Asked(answers.perf) => Asked(answers.metadata) /\ osds # <<>>
    /\ Asked(answers.tree) \/ Asked(answers.dump) => Asked(answers.perf)
    /\ answers.is_active # EmptyMap
          => /\ Asked(answers.perf)
             /\ osd_to_drive = match_drives_to_osds(drives, osds)
             /\ DOMAIN answers.is_active = Keys(osd_to_drive)
    /\ pc \in {"scan_status", "scan_systemd"} \/ scan_return = "result"
          => osd_to_drive = match_drives_to_osds(drives, osds)
    /\ scan_return = "failed" /\ drives = EmptyMap
          => /\ answers = NoAnswers
             /\ osds = <<>> /\ osd_to_drive = <<>> /\ systemd_status = EmptyMap
    /\ pc # "returned" => scan_return = "none"

\* the pipeline went in the order of StageOrder: a step never goes back
C24_StagesAdvance ==
    [][pc' # "returned" => StageOf(pc') = StageOf(pc) + 1]_vars

\* a scan that went through every stage and asked the service state of a
\* matched logical disk
C24_Witness ==
    /\ scan_return = "result"
    /\ answers.is_active # EmptyMap
    /\ Asked(answers.tree)

\* a scan that found no drive and failed
C24_WitnessNoDrives ==
    /\ scan_return = "failed"
    /\ drives = EmptyMap
    /\ controllers # <<>>

(***************************************************************************)
(* Claims about the slot walk of a passthrough controller.                 *)
(***************************************************************************)
\* the drives admitted before the step are all still there after it
KeepsAdmitted ==
    \A s \in DOMAIN drives : s \in DOMAIN drives' /\ drives'[s] = drives[s]

\* the step from slot phy_id goes to the next slot, or from slot 31 to the
\* next controller
WalkGoesOn ==
    \/ phy_id + 1 < slots_per_controller
          /\ pc' = "slot" /\ phy_id' = phy_id + 1 /\ ci' = ci
    \/ phy_id + 1 = slots_per_controller
          /\ pc' = "controller" /\ ci' = ci + 1

\* C25: the walk of a passthrough controller starts at slot 0 and probes the
\* slots 0..31 one after the other, each once; whatever the probe of a slot
\* gives, the walk goes on to the next slot (after slot 31, to the next
\* controller) and the drives admitted so far are kept.
C25_SlotWalkNeverStops ==
    [][/\ pc = "slot" => WalkGoesOn /\ KeepsAdmitted
       /\ pc = "controller" /\ pc' = "slot" => phy_id' = 0 /\ KeepsAdmitted]_vars

\* the part of C25 that holds: a probe that run_command answers (None for a
\* non-zero exit or for output that is not JSON, or the parsed output) never
\* stops the walk
C25_AnsweredProbeContinues ==
    [][pc = "slot" /\ pc' # "raised" => WalkGoesOn /\ KeepsAdmitted]_vars

\* a controller that yielded no drive was walked to the end and the scan
\* returned
C25_WitnessEmptyController ==
    /\ pc = "scanned"
    /\ drives = EmptyMap
    /\ \E k \in DOMAIN controllers : IsMegaraid(controllers[k])

(***************************************************************************)
(* Claims about the target walk of an expander controller.                 *)
(***************************************************************************)
\* the listing shows the node on a line of exactly this address
ListedAt(lines, addr, node) ==
    \E i \in DOMAIN lines : lines[i].addr = addr /\ lines[i].dev = node

\* during the scan of the enclosure controllers[ci]
ExpanderScanRight ==
    jbod # None =>
        LET j == Val(jbod)
            c == controllers[ci]
            ProbedAddrs == {j.probed[k].addr : k \in DOMAIN j.probed}
        IN /\ ~IsMegaraid(c)
           \* only addresses of this host, each listed, each at most once
           /\ \A k \in DOMAIN j.probed :
                 /\ j.probed[k].addr[1] = c.index
                 /\ IsSg(j.probed[k].node)
                 /\ ListedAt(j.lines, j.probed[k].addr, j.probed[k].node)
           /\ \A k1, k2 \in DOMAIN j.probed :
                 j.probed[k1].addr = j.probed[k2].addr => k1 = k2
           \* a target left behind without a probe had no node to resolve to
           /\ \A t \in TargetsFound(j.lines, c.index) \ j.targets :
                 LET addr == <<c.index, t[1], t[2], t[3]>>
                 IN addr \notin ProbedAddrs => SgDeviceFor(j.lines, addr) = None
           \* the drives of this enclosure come from probed addresses
           /\ \A s \in DOMAIN j.drives :
                 /\ Val(j.drives[s].scsi_address) \in ProbedAddrs
                 /\ j.drives[s].controller_device = c.device

\* every drive first found through an expander has the target as its slot
\* and ordinal:channel:target:lun as its address
ExpanderDrivesAddressed ==
    \A s \in DOMAIN AdmittedDrives :
        LET c == controllers[first_sighting[s].ci]
            d == AdmittedDrives[s]
        IN ~IsMegaraid(c) =>
              /\ Val(d.scsi_address)[1] = c.index
              /\ d.phy_id = Val(d.scsi_address)[3]
              /\ Val(d.scsi_address) = first_sighting[s].scsi_address

\* a step that leaves an expander controller at once: its listing was
\* unavailable or empty, and it contributes no drive
UnlistedExpanderGivesNothing ==
    /\ pc = "controller" /\ pc' = "controller"
    /\ ci <= Len(controllers) /\ ~IsMegaraid(controllers[ci])
    => drives' = drives /\ seen_serials' = seen_serials /\ ci' = ci + 1

\* C26: for an expander controller only the addresses of the OS listing whose
\* host is the controller's ordinal are probed, each (channel, target, lun)
\* at most once and through the /dev/sg node the listing shows for exactly
\* that address; an address without such a node is skipped; an admitted drive
\* has slot = target and address = ordinal:channel:target:lun; a controller
\* whose listing is unavailable contributes no drive.
C26_ExpanderEnumeration ==
    /\ [](ExpanderScanRight /\ ExpanderDrivesAddressed)
    /\ [][UnlistedExpanderGivesNothing]_vars

\* an enclosure scan that probed a listed node, skipped an address shown
\* without a node, and admitted a drive
C26_Witness ==
    /\ jbod # None
    /\ Val(jbod).targets = {}
    /\ Val(jbod).probed # <<>>
    /\ Val(jbod).drives # EmptyMap
    /\ \E t \in TargetsFound(Val(jbod).lines, controllers[ci].index) :
          SgDeviceFor(Val(jbod).lines, <<controllers[ci].index, t[1], t[2], t[3]>>) = None

(***************************************************************************)
(* Claims about the classification of controllers.                         *)
(***************************************************************************)
PassthroughWords == {"perc", "h730", "h830", "h740", "h840", "megaraid", "lsi"}

ChassisWords == {"md1400", "md1200"}

\* the product/model string names a passthrough controller and no chassis
PassthroughModel(model) ==
    /\ ValueWords(model) \cap PassthroughWords # {}
    /\ ValueWords(model) \cap ChassisWords = {}

\* what the claim calls passthrough: such a model, or the fallback controller
Passthrough(c) == c = Fallback \/ PassthroughModel(c.model)

\* C27: a controller is walked slot by slot (from slot 0) exactly when its
\* model string matches a PERC, H730/H830/H740/H840, MegaRAID or LSI pattern
\* and no MD1400/MD1200 pattern, or when it is the fallback controller; every
\* other controller is walked by the targets of the OS listing.
C27_ClassificationDecidesWalk ==
    /\ [](\A k \in DOMAIN found : found[k] # Fallback =>
             /\ found[k].is_megaraid # None
             /\ Val(found[k].is_megaraid) = PassthroughModel(found[k].model))
    /\ [][/\ pc = "controller" /\ pc' = "slot" => Passthrough(controllers[ci])
          /\ pc = "controller" /\ (pc' = "target" \/ (pc' = pc /\ ci' = ci + 1))
                => ~Passthrough(controllers[ci])]_vars

\* the enumerator has walked a chassis whose product also matches LSI by
\* its targets and a PERC by its slots
C27_Witness ==
    /\ pc = "scanned"
    /\ \E k \in DOMAIN controllers :
          controllers[k].model = "MD1200 LSI" /\ ~IsMegaraid(controllers[k])
    /\ \E k \in DOMAIN controllers :
          controllers[k].model = "PERC H730P Adp" /\ IsMegaraid(controllers[k])

\* the fallback controller was walked slot by slot
C27_WitnessFallback ==
    /\ pc = "slot"
    /\ controllers = <<Fallback>>
    /\ phy_id = 31

(***************************************************************************)
(* Claims about the service-state entries of a result.                     *)
(***************************************************************************)
\* the logical disk's descriptor names the serial of a local drive
MatchedLocally(id) ==
    LET p == parse_device_id(Get(osds, id).device_ids)
    IN p # None /\ Val(p).serial \in DOMAIN drives

\* C28: in every result of scan() the logical disks with a service-state
\* entry are exactly the keys of the correlation map, which are exactly the
\* logical disks of the inventory matched to a local drive; the service
\* query is made for these and for no other logical disk.
C28_ServiceStateForMatchedOnly ==
    scan_return = "result"
    => /\ DOMAIN systemd_status = Keys(osd_to_drive)
       /\ DOMAIN answers.is_active = Keys(osd_to_drive)
       /\ \A id \in Keys(osds) : id \in DOMAIN systemd_status <=> MatchedLocally(id)
       /\ DOMAIN systemd_status \subseteq Keys(osds)

\* a result with one matched logical disk, whose service query gave nothing,
\* and one logical disk of another host
C28_Witness ==
    /\ scan_return = "result"
    /\ \E id \in Keys(osds) : ~MatchedLocally(id)
    /\ \E id \in Keys(osds) :
          MatchedLocally(id) /\ answers.is_active[id] = NonZeroExit

(***************************************************************************)
(* Claims about results over several runs of scan() on one monitor.        *)
(***************************************************************************)
\* what a holder of the k-th returned result reads in it now
ReadNow(k) == ReadResult(heap, results[k].refs)

\* C23: a result scan() returned is never changed afterwards by the core:
\* whatever analyze_health calls and later runs of scan() on the same
\* monitor follow, successful, failed or ended by an exception, every field
\* of the result (controller summary with its list, drives, inventory,
\* correlation, status, service state, latencies) reads as it did when
\* scan() returned it.
C23_ReturnedResultUnchanged ==
    \A k \in DOMAIN results : ReadNow(k) = results[k].at_return

\* two results of one monitor with different drive maps, analysed after the
\* second run
C23_Witness ==
    /\ Len(results) = 2
    /\ pc = "idle"
    /\ results[1].at_return.drives # results[2].at_return.drives
    /\ results[1].at_return.osd_to_drive # <<>>
    /\ issues # NoIssues

\* a result of the first run, and a second run that failed after it had
\* bound a new, empty drive map
C23_WitnessFailedRun ==
    /\ Len(results) = 1
    /\ run = "second"
    /\ scan_return = "failed"
    /\ heap[self_ref.drives] = EmptyMap
    /\ results[1].at_return.drives # EmptyMap

\* what the running scan() has observed: the controllers discovery gave,
\* the first response that carried each serial, and the answers to its queries
ProbesNow == [controllers |-> controllers, first_sighting |-> first_sighting,
              answers |-> answers]

\* the drive map enumeration builds on a monitor that has scanned nothing before
FreshDrives(p) ==
    [s \in DOMAIN p.first_sighting |->
        LET f == p.first_sighting[s]
        IN DriveFromInfo(f.info, f.phy, f.scsi_address, p.controllers[f.ci])]

\* what scan() on a newly constructed monitor returns for these observations:
\* None for the failure result, else the fields of the result
FreshScan(p) ==
    IF FreshDrives(p) = EmptyMap THEN None
    ELSE IF get_ceph_osds(run_command(p.answers.metadata)) = <<>> THEN None
    ELSE LET mapped == map_drives_to_devices(FreshDrives(p), run_command(p.answers.lsscsi))
             inventory == get_ceph_osds(run_command(p.answers.metadata))
             correlation == match_drives_to_osds(mapped, inventory)
         IN Some([controller |-> [count |-> Len(p.controllers), controllers |-> 1],
                  controllers |-> p.controllers,
                  drives |-> mapped,
                  osds |-> inventory,
                  osd_to_drive |-> correlation,
                  osd_status |-> get_osd_status(run_command(p.answers.tree),
                                                run_command(p.answers.dump)),
                  systemd_status |-> check_systemd_status(Keys(correlation),
                                                          p.answers.is_active),
                  osd_perf |-> get_osd_performance(run_command(p.answers.perf))])

\* the service-state queries of the run are those a newly constructed monitor
\* makes: one for each key of the fresh correlation
FreshQueries(p) ==
    DOMAIN p.answers.is_active =
        Keys(match_drives_to_osds(
                map_drives_to_devices(FreshDrives(p), run_command(p.answers.lsscsi)),
                get_ceph_osds(run_command(p.answers.metadata))))

\* a result as read at its return, with the object id inside the controller
\* summary replaced by a fixed one: ids differ between monitors, contents
\* are compared
Contents(r) ==
    [r.at_return EXCEPT !.controller = [count |-> @.count, controllers |-> 1]]

\* C29: every scan is computed from scratch.  Whatever an earlier run on the
\* same monitor did (succeeded, failed at either early return, ended by an
\* exception at any stage), a run returns what a newly constructed monitor
\* returns for the same probe responses, the timestamp apart: every returned
\* result was computed by the queries a fresh monitor makes and equals the
\* fresh computation from its own run's observations, and a run that returns
\* the failure result does so where the fresh computation does.
C29_ScanFromScratch ==
    /\ \A k \in DOMAIN results :
          /\ FreshQueries(results[k].probes)
          /\ Some(Contents(results[k])) = FreshScan(results[k].probes)
    /\ (pc = "idle" /\ scan_return = "failed") => FreshScan(ProbesNow) = None
    /\ (pc = "idle" /\ scan_return = "result")
          => /\ results # <<>>
             /\ results[Len(results)].probes = ProbesNow
             /\ results[Len(results)].timestamp = run

\* a second run that returns a drive the first run had already admitted,
\* after a first run that returned a result
C29_Witness ==
    /\ Len(results) = 2
    /\ scan_return = "result"
    /\ DOMAIN results[1].at_return.drives = {S1, S2}
    /\ DOMAIN results[2].at_return.drives = {S1}
    /\ results[2].at_return.drives[S1].phy_id # results[1].at_return.drives[S1].phy_id

\* a second run that returns a result after the first run ended by an
\* exception during enumeration
C29_WitnessAfterException ==
    /\ Len(results) = 1
    /\ run = "second"
    /\ scan_return = "result"

(***************************************************************************)
(* Claims about the LED tool's list action.                                *)
(***************************************************************************)
\* list_drives has ended on a result of scan()
ListedResult == pc = "listed" /\ scan_return = "result"

\* the rows printed are those of the drives of the result, one each
OneRowPerDrive ==
    /\ Len(list_rows) = Cardinality(DOMAIN drives)
    /\ {list_rows[i].serial : i \in DOMAIN list_rows} = DOMAIN drives

\* C30: the list action consumes every result scan() can return without
\* error: for drives with or without a device name, in any mixture,
\* list_drives reads only keys the result has, prints one row per drive and
\* finishes normally.
C30_ListConsumesAnyResult ==
    ListedResult => list_end = "normal" /\ OneRowPerDrive

\* the part of C30 that holds: when the drives can be sorted, every drive
\* gets its row, from keys every drive has, before the enclosures are read
C30_RowsWhenSortable ==
    (ListedResult /\ list_end # "TypeError") => OneRowPerDrive

\* no run of list_drives on a result ends normally
C30_NeverNormal == list_end # "normal"

====
